---- MODULE Spec2Model ----
(***************************************************************************)
(* Workflow execution engine: the execution state machine, the durable     *)
(* store rows of one workflow execution, the Redis task queue, the         *)
(* orchestrator driven by competing workers, and the retry / cancel        *)
(* service calls.                                                          *)
(*                                                                         *)
(* Every store statement (one SQL statement, autocommitted) and every      *)
(* Redis command is atomic on its own; a Python method that issues several *)
(* of them is a sequence of steps other processes interleave with.         *)
(***************************************************************************)
EXTENDS Integers, Sequences, FiniteSets, TLC

\* ------------------------------------------------------------------ bounds
NumSteps == 2          \* steps of the workflow under execution: orders 0..NumSteps-1
MaxStepRetries == 2    \* largest WorkflowStep.max_retries tried
MaxExecRetries == 1    \* largest WorkflowExecution.max_retries tried
MaxCrashes == 1        \* worker kills during one behaviour
MaxRetryCalls == 2     \* retry_execution calls during one behaviour
MaxCancelCalls == 1    \* cancel_execution calls during one behaviour
MaxStepExecutions == 4 \* rows of the step_executions table
MaxDeliveries == 2     \* successful dequeues during one behaviour
MaxPops == 3           \* BRPOPLPUSH hits during one behaviour of the queue alone
MaxStops == 2          \* stop() calls (signals) during one behaviour
MaxRedeliveries == 8   \* BRPOPLPUSH hits of one message, above what its attempts allow
QueueMessages == 2     \* messages in Q when the queue is taken alone
MaxEnqueues == 3       \* enqueue calls during one behaviour
DelaySeconds == 60     \* the non-zero delay_seconds tried
TickSeconds == 43200   \* step of the clock
MaxTime == 129600      \* the clock stops here
MaxPathLen == 4        \* statuses on a path through the state machine
MaxFirstOrder == 1     \* largest first step_order of a workflow tried
MaxStepOrder == 2      \* largest step_order given to add_step
MaxAddCalls == 3       \* add_step calls during one behaviour
MaxNameCalls == 3      \* create_workflow calls during one behaviour
LargeMaxRetries == 1025 \* a WorkflowStep.max_retries above the exponent range of a float

\* ------------------------------------------------------- program constants
MAX_RETRIES == 3            \* Config.MAX_RETRIES, the worker's DLQ threshold
RECOVER_MAX_ATTEMPTS == 3   \* the literal 3 of recover_stale_messages
IDEMPOTENCY_TTL == 86400    \* redis.expire(idem_key, 86400)
DEFAULT_MAX_RETRIES == 3    \* create_execution's default max_retries
DEFAULT_STEP_MAX_RETRIES == 3   \* add_step's default max_retries
DEFAULT_TIMEOUT_SECONDS == 300  \* add_step's default timeout_seconds
RETRY_BASE_DELAY == 1       \* Config.RETRY_BASE_DELAY, 1.0 seconds
RETRY_MAX_DELAY == 300      \* Config.RETRY_MAX_DELAY, 300.0 seconds
FLOAT_MAX_EXP == 1024       \* float * int raises OverflowError from 2 ** 1024 on

NULL == "null"

\* ---------------------------------------------------------- state machine
ExecutionStatus == {"pending", "running", "completed", "failed", "retrying", "cancelled"}

TRANSITIONS ==
    [s \in ExecutionStatus |->
        CASE s = "pending"   -> {"running", "cancelled"}
          [] s = "running"   -> {"completed", "failed", "cancelled"}
          [] s = "failed"    -> {"retrying", "cancelled"}
          [] s = "retrying"  -> {"running", "failed", "cancelled"}
          [] s = "completed" -> {}
          [] s = "cancelled" -> {}]

TERMINAL_STATES == {"completed", "failed", "cancelled"}

is_terminal(state) == state \in TERMINAL_STATES

\* Mutant of can_transition: every move out of a status with successors.
can_transition_loose(from_state, to_state) == TRANSITIONS[from_state] # {}

can_transition(from_state, to_state) == to_state \in TRANSITIONS[from_state]

\* How validate_transition ends: by raising, or by returning None.
validate_transition(from_state, to_state) ==
    IF ~can_transition(from_state, to_state) THEN "InvalidTransitionError" ELSE "None"

\* get_transition_path before it is called: no locals, nothing returned.
NoQuery ==
    [pc |-> "idle", from_state |-> NULL, to_state |-> NULL, queue |-> <<>>,
     visited |-> {}, returned |-> "nothing", result |-> <<>>]

\* The orders in which a `for` loop may go through a Python set.
IterationOrders(S) ==
    {o \in [1..Cardinality(S) -> S] : \A i, j \in 1..Cardinality(S) : i # j => o[i] # o[j]}

\* Mutant of NextPath: the path is handed on without the state just reached.
NextPath_short(path, next_state) == path

\* path + [next_state]
NextPath(path, next_state) == Append(path, next_state)

\* The `for next_state in TRANSITIONS.get(current, set())` loop over the
\* states still to come in `order`: it returns the path on meeting to_state,
\* and appends each state not visited before to the deque.
RECURSIVE VisitNeighbours(_, _, _, _, _)
VisitNeighbours(order, path, to_state, queue, visited) ==
    IF order = <<>>
    THEN [found |-> FALSE, result |-> <<>>, queue |-> queue, visited |-> visited]
    ELSE LET next_state == Head(order)
         IN IF next_state = to_state
            THEN [found |-> TRUE, result |-> NextPath(path, next_state),
                  queue |-> queue, visited |-> visited]
            ELSE IF next_state \notin visited
                 THEN VisitNeighbours(Tail(order), path, to_state,
                          Append(queue, [current |-> next_state,
                                         path |-> NextPath(path, next_state)]),
                          visited \cup {next_state})
                 ELSE VisitNeighbours(Tail(order), path, to_state, queue, visited)

\* ------------------------------------------------------------------- state
VARIABLES
    workflow_steps,    \* workflow_steps rows of the active workflow: step_order -> row
    executions,        \* workflow_executions table: id -> row
    step_executions,   \* step_executions table, in insertion order
    queue,             \* Redis list Q, index 1 = head (LPUSH side), last = tail (RPOP side)
    processing,        \* Redis list Q:processing
    ttl_keys,          \* ids m for which the key Q:processing:<m> exists
    dlq,               \* Redis list Q:dlq
    msgs_created,      \* number of QueueMessage.create calls so far (fresh ids)
    deliveries,        \* history: number of successful dequeues so far
    wpc,               \* worker -> position in Worker._process_one / orchestrator.execute
    wmsg,              \* worker -> the message it dequeued
    wexec,             \* worker -> the `execution` local of orchestrator.execute
    wsteps,            \* worker -> the remaining `steps` list of orchestrator.execute
    wattempt,          \* worker -> `attempt` of _execute_step
    wrec,              \* worker -> index of the `step_exec` row of _execute_step
    winvoked,          \* history: worker -> step orders whose handler this execute call invoked
    crashes,           \* history: number of worker kills so far
    rpc,               \* retry caller -> position in retry_execution
    rexec,             \* retry caller -> its loaded execution
    retry_calls,       \* history: retry_execution calls started
    cpc,               \* cancel caller -> position in cancel_execution
    cancel_calls,      \* history: cancel_execution calls started
    workflow_status,   \* status column of the workflow W1
    xpc,               \* create caller -> position in create_execution
    xkey,              \* create caller -> its idempotency_key argument
    xresult,           \* history: create caller -> how its call ended
    xstatus,           \* history: create caller -> the workflow status its call loaded
    xlogs,             \* execution ids of the "Execution created" rows of execution_logs
    xanswer,           \* history: create caller -> the HTTP status its POST was answered with
    spc,               \* sweeper -> position in recover_stale_messages
    smessages,         \* sweeper -> the part of its LRANGE snapshot still to visit
    open,              \* history: worker -> it holds a message inside its visibility window
    released,          \* history: ids some worker began to acknowledge or reject
    pushed,            \* history: ids enqueue put on Q by LPUSH, in command order
    popped,            \* history: ids of the BRPOPLPUSH hits, in command order
    requeued,          \* history: ids reject or recover_stale_messages put back on Q
    srecovered,        \* sweeper -> the `recovered` local of recover_stale_messages
    sremoved,          \* history: sweeper -> entries the LREMs of its sweep took out
    wready,            \* worker -> the Q:delayed members its dequeue read as ready
    due,               \* history: message id -> the score it entered Q:delayed with
    running,           \* worker -> Worker._running
    shutdown_event,    \* worker -> whether Worker._shutdown_event is set
    stops,             \* history: number of stop() calls so far
    now,               \* time.time(), in seconds
    idem,              \* idempotency key -> state of the Redis key Q:idempotency:<key>
    delayed,           \* sorted set Q:delayed: set of <<message JSON, score>>
    ppc,               \* producer -> position in enqueue
    pcall,             \* producer -> arguments of its enqueue call
    presult,           \* history: producer -> what its last finished enqueue returned
    pexisted,          \* history: producer -> the key was live at its last SETNX
    life,              \* history: idempotency key -> number of times the key came to exist
    adds,              \* history: key -> life -> messages added by calls of that life
    enq_calls,         \* history: enqueue calls started
    sm_path,           \* statuses a caller of WorkflowStateMachine.transition went through
    sm_to,             \* the to_state of its last call
    sm_outcome,        \* how that call ended
    bfs,               \* locals of one WorkflowStateMachine.get_transition_path call
    step_rows,         \* workflow_steps rows of the workflow being built, in insertion order
    apc,               \* add_step caller -> position in add_step
    alocal,            \* add_step caller -> its step_order argument and loaded workflow
    add_calls,         \* history: add_step calls started
    vpc,               \* activate_workflow caller -> position in activate_workflow
    vlocal,            \* activate_workflow caller -> its loaded workflow
    workflows,         \* workflows rows inserted by create_workflow, in insertion order
    kpc,               \* create_workflow caller -> position in create_workflow
    kname,             \* create_workflow caller -> its name argument
    kresult,           \* history: create_workflow caller -> how its last call ended
    name_calls,        \* history: create_workflow calls started
    dpc,               \* deprecate_workflow caller -> position in deprecate_workflow
    dlocal,            \* deprecate_workflow caller -> status of the workflow it loaded
    dresult,           \* history: deprecate_workflow caller -> how its last call ended
    hpc,               \* archive_workflow caller -> position in archive_workflow
    succeeded,         \* history: step orders of e1 of which a handler invocation returned
    wdone,             \* worker -> step orders whose handler returned in this execute call (step_outputs)
    outputs,           \* execution id -> the dict written to its output_data column
    wslept,            \* history: worker -> the time.sleep calls of its _execute_step call
    wresult,           \* history: worker -> how its orchestrator.execute call ended
    cexec,             \* cancel caller -> status of the execution it loaded
    wcancel            \* history: worker -> a cancel_execution that loaded a running
                       \* execution wrote cancelled while this worker was inside execute

store_vars == <<workflow_steps, executions, step_executions>>
queue_vars == <<queue, processing, ttl_keys, dlq, msgs_created, deliveries>>
worker_vars == <<wpc, wmsg, wexec, wsteps, wattempt, wrec, winvoked, crashes>>
api_vars == <<rpc, rexec, retry_calls, cpc, cancel_calls>>
create_vars == <<workflow_status, xpc, xkey, xresult, xstatus, xlogs, xanswer>>
fifo_vars == <<pushed, popped, requeued>>
loop_vars == <<running, shutdown_event, stops>>
dequeue_vars == <<wready, due, loop_vars>>
count_vars == <<srecovered, sremoved, dequeue_vars>>
sweep_vars == <<spc, smessages, released, fifo_vars, count_vars>>
enqueue_vars == <<now, idem, delayed, ppc, pcall, presult, pexisted, life, adds, enq_calls>>
aux_vars == <<create_vars, sweep_vars, enqueue_vars>>
base_vars == <<store_vars, queue_vars, worker_vars, api_vars, aux_vars, open>>
sm_vars == <<sm_path, sm_to, sm_outcome, bfs>>
cancel_vars == <<cexec, wcancel>>
name_vars == <<workflows, kpc, kname, kresult, name_calls>>
cycle_vars == <<dpc, dlocal, dresult, hpc>>
build_vars == <<step_rows, apc, alocal, add_calls, vpc, vlocal, name_vars, cycle_vars>>
order_vars == <<succeeded, wdone, wslept, outputs>>
ext_vars == <<sm_vars, cancel_vars, wresult, build_vars, order_vars>>
vars == <<base_vars, ext_vars>>

Workers == {"w1", "w2"}
RetryCallers == {"r1", "r2"}
CancelCallers == {"c1"}
E1 == "e1"
W1 == "wf1"
\* task types the TaskHandlerRegistry has a handler for
Handlers == {"log"}

\* ------------------------------------------------------------ Redis lists
\* Mutant of LPush: the element goes to the tail, where BRPOPLPUSH takes from.
RPush(list, x) == Append(list, x)

LPush(list, x) == <<x>> \o list

\* LREM list 1 x: drop the first occurrence of x, scanning from the head.
RECURSIVE LRem(_, _)
LRem(list, x) ==
    IF list = <<>> THEN <<>>
    ELSE IF Head(list) = x THEN Tail(list)
    ELSE <<Head(list)>> \o LRem(Tail(list), x)

Range(list) == {list[i] : i \in 1..Len(list)}

\* Mutant of key_exists: a sweeper that finds every visibility key present.
key_exists_always(keys, id) == TRUE

\* redis.exists(Q:processing:<id>)
key_exists(keys, id) == id \in keys

\* ---------------------------------------------------------- QueueMessage
\* The JSON text of a message is decided by its fields; LREM compares texts.
to_json(m) == <<m.id, m.execution_id, m.payload, m.attempt>>

from_json(j) == [id |-> j[1], execution_id |-> j[2], payload |-> j[3], attempt |-> j[4]]

QueueMessage_create(execution_id, n) ==
    [id |-> n, execution_id |-> execution_id, payload |-> "none", attempt |-> 1]

NoMsg == [id |-> 0, execution_id |-> NULL, payload |-> "none", attempt |-> 0]

\* --------------------------------------------------------------- entities
WorkflowExecution_create(workflow_id, idempotency_key, max_retries) ==
    [workflow_id |-> workflow_id, idempotency_key |-> idempotency_key,
     status |-> "pending", current_step_order |-> 0, retry_count |-> 0,
     max_retries |-> max_retries, error_message |-> <<>>, output_data |-> NULL,
     started_at |-> <<>>, completed_at |-> <<>>]

\* A step of the workflow: the name is the one add_step was given for it.
StepNames == <<"fetch", "transform", "notify">>

WorkflowStep_create(step_order, max_retries) ==
    [step_order |-> step_order, name |-> StepNames[step_order + 1],
     task_type |-> "log", timeout_seconds |-> DEFAULT_TIMEOUT_SECONDS,
     max_retries |-> max_retries]

StepExecution_create(execution_id, step_order) ==
    [execution_id |-> execution_id, step_order |-> step_order,
     status |-> "pending", attempt_number |-> 1]

NoExec == [status |-> NULL, current_step_order |-> 0, retry_count |-> 0, max_retries |-> 0]

\* How an orchestrator.execute call ended: the status and output of the dict
\* it returned, or the error it raised.
Returns(status, output) == [status |-> status, output |-> output]

Raises(error) == [status |-> error, output |-> NULL]

NoOutcome == [status |-> "none", output |-> NULL]

Snapshot(e) ==
    [status |-> e.status, current_step_order |-> e.current_step_order,
     retry_count |-> e.retry_count, max_retries |-> e.max_retries]

\* ------------------------------------------------------------- repository
\* Mutant of COALESCE: the new value whatever the column holds.
COALESCE_replace(column, value) == value

\* COALESCE(started_at, %s): the column's value unless it is NULL.
COALESCE(column, value) == IF column # <<>> THEN column ELSE value

\* Mutant of stamps_completed_at: a cancel leaves completed_at alone.
stamps_completed_at_but_cancelled(status) == status \in {"completed", "failed"}

\* update_execution_status: status in (COMPLETED, FAILED, CANCELLED).
stamps_completed_at(status) == status \in {"completed", "failed", "cancelled"}

\* ExecutionRepository.update_execution_status: one UPDATE, no check of the
\* row's present status. A text is the sequence of its pieces; err = <<>> and
\* cso = <<>> (Python None) leave the column alone; cso = <<n>> sets it. A
\* timestamp column is <<>> (NULL) or <<t>>; datetime.utcnow() reads `now`.
update_execution_status(row, status, err, cso) ==
    [row EXCEPT
        !.status = status,
        !.error_message = IF err # <<>> THEN err ELSE @,
        !.current_step_order = IF cso # <<>> THEN cso[1] ELSE @,
        !.started_at = IF status = "running" THEN COALESCE(@, <<now>>) ELSE @,
        !.completed_at = IF stamps_completed_at(status) THEN <<now>> ELSE @]

increment_retry_count(row) == [row EXCEPT !.retry_count = @ + 1]

set_output_data(row) == [row EXCEPT !.output_data = "set"]

\* The dict of an output_data column: the keys of "steps", and "final_data"
\* as the dicts merged into it, in the order of the update calls.
NoOutput == [steps |-> {}, final_data |-> <<>>]

update_step_execution(rows, i, status) == [rows EXCEPT ![i].status = status]

\* _execute_step has not slept.
NoSleep == [delays |-> <<>>, raised |-> FALSE]

\* The locals of a worker that is back in its dequeue loop.
IdleLocals(w) ==
    /\ wslept' = [wslept EXCEPT ![w] = NoSleep]
    /\ wexec' = [wexec EXCEPT ![w] = NoExec]
    /\ wsteps' = [wsteps EXCEPT ![w] = <<>>]
    /\ wattempt' = [wattempt EXCEPT ![w] = 0]
    /\ wrec' = [wrec EXCEPT ![w] = 0]

\* ------------------------------------------------------------- task queue
\* TaskQueue.dequeue without the delayed set: BRPOPLPUSH Q -> Q:processing,
\* then SETEX of the visibility key.
Dequeue(w) ==
    /\ wpc[w] = "idle"
    /\ queue # <<>>
    /\ deliveries < MaxDeliveries
    /\ deliveries' = deliveries + 1
    /\ LET result == queue[Len(queue)]
           message == from_json(result)
       IN /\ queue' = SubSeq(queue, 1, Len(queue) - 1)
          /\ processing' = LPush(processing, result)
          /\ ttl_keys' = ttl_keys \cup {message.id}
          /\ wmsg' = [wmsg EXCEPT ![w] = message]
    /\ wpc' = [wpc EXCEPT ![w] = "execute"]
    /\ winvoked' = [winvoked EXCEPT ![w] = <<>>]
    /\ wcancel' = [wcancel EXCEPT ![w] = FALSE]
    /\ wresult' = [wresult EXCEPT ![w] = NoOutcome]
    /\ wdone' = [wdone EXCEPT ![w] = {}]
    /\ UNCHANGED <<sm_vars, succeeded, wslept, build_vars, cexec, aux_vars, open, store_vars, dlq, msgs_created, wexec, wsteps, wattempt, wrec, crashes, api_vars, outputs>>

\* TaskQueue.acknowledge: LREM of the message's JSON, DEL of the key.
Acknowledge(w) ==
    /\ wpc[w] = "ack"
    /\ processing' = LRem(processing, to_json(wmsg[w]))
    /\ ttl_keys' = ttl_keys \ {wmsg[w].id}
    /\ wpc' = [wpc EXCEPT ![w] = "idle"]
    /\ wmsg' = [wmsg EXCEPT ![w] = NoMsg]
    /\ IdleLocals(w)
    /\ winvoked' = [winvoked EXCEPT ![w] = <<>>]
    /\ UNCHANGED <<sm_vars, cancel_vars, wresult, build_vars, succeeded, wdone, aux_vars, open, store_vars, queue, dlq,
                   msgs_created, deliveries, crashes, api_vars, outputs>>

\* Mutant of send_to_dlq: the dead letter queue one attempt later.
send_to_dlq_late(message) == message.attempt > MAX_RETRIES

\* Worker._process_one: send_to_dlq = message.attempt >= max_attempts.
send_to_dlq(message) == message.attempt >= MAX_RETRIES

\* Worker._process_one's except branch and TaskQueue.reject.
Reject(w) ==
    /\ wpc[w] = "reject"
    /\ LET message == wmsg[w]
       IN /\ processing' = LRem(processing, to_json(message))
          /\ ttl_keys' = ttl_keys \ {message.id}
          /\ IF send_to_dlq(message)
             THEN /\ dlq' = LPush(dlq, to_json([message EXCEPT !.payload = "rejected"]))
                  /\ queue' = queue
             ELSE /\ queue' = LPush(queue, to_json([message EXCEPT !.attempt = @ + 1]))
                  /\ dlq' = dlq
    /\ wpc' = [wpc EXCEPT ![w] = "idle"]
    /\ wmsg' = [wmsg EXCEPT ![w] = NoMsg]
    /\ IdleLocals(w)
    /\ winvoked' = [winvoked EXCEPT ![w] = <<>>]
    /\ UNCHANGED <<sm_vars, cancel_vars, wresult, build_vars, succeeded, wdone, aux_vars, open, store_vars,
                   msgs_created, deliveries, crashes, api_vars, outputs>>

\* One iteration of recover_stale_messages' loop for the snapshot entry
\* msg_json, on the lists st = [processing, queue, dlq, recovered].
RecoverOne(st, msg_json, keys) ==
    LET message == from_json(msg_json)
        bumped == [message EXCEPT !.attempt = @ + 1]
    IN IF key_exists(keys, message.id) THEN st
       ELSE [processing |-> LRem(st.processing, msg_json),
             queue |-> IF bumped.attempt <= RECOVER_MAX_ATTEMPTS
                       THEN LPush(st.queue, to_json(bumped)) ELSE st.queue,
             dlq |-> IF bumped.attempt <= RECOVER_MAX_ATTEMPTS THEN st.dlq
                     ELSE LPush(st.dlq,
                                to_json([bumped EXCEPT !.payload = "max_attempts_exceeded"])),
             recovered |-> st.recovered + 1]

RECURSIVE RecoverAll(_, _, _)
RecoverAll(st, messages, keys) ==
    IF messages = <<>> THEN st
    ELSE RecoverAll(RecoverOne(st, Head(messages), keys), Tail(messages), keys)

\* One whole sweep of Worker._recovery_loop.
RecoverStale ==
    /\ \E j \in Range(processing) : ~key_exists(ttl_keys, from_json(j).id)
    /\ LET st == RecoverAll([processing |-> processing, queue |-> queue, dlq |-> dlq,
                             recovered |-> 0], processing, ttl_keys)
       IN /\ processing' = st.processing
          /\ queue' = st.queue
          /\ dlq' = st.dlq
    /\ UNCHANGED <<ext_vars, aux_vars, open, store_vars, ttl_keys, msgs_created, deliveries, worker_vars, api_vars>>

\* The visibility timeout of message id elapses: Redis drops the key.
ExpireKey(id) ==
    /\ id \in ttl_keys
    /\ ttl_keys' = ttl_keys \ {id}
    /\ open' = [w \in Workers |-> open[w] /\ ~(wpc[w] = "held" /\ wmsg[w].id = id)]
    /\ UNCHANGED <<ext_vars, aux_vars, store_vars, queue, processing, dlq, msgs_created, deliveries, worker_vars, api_vars>>

\* ------------------------------------------------------------ orchestrator
\* Mutant of may_attempt: one attempt more than step.max_retries.
may_attempt_once_more(attempt, step) == attempt <= step.max_retries

\* _execute_step: while attempt < step.max_retries.
may_attempt(attempt, step) == attempt < step.max_retries

\* str(StepExecutionError(step.name, message)).
StepExecutionError(step, message) == <<"Step '", step.name, "' failed: ">> \o message

\* The error _execute_step raises for the step: no handler, or retries exhausted.
step_error(step) ==
    StepExecutionError(step,
        IF step.task_type \notin Handlers
        THEN <<"No handler registered for task type: ", step.task_type>>
        ELSE <<"Step failed after ", ToString(step.max_retries), " attempts: ",
               "last_error">>)

\* Mutant of SortedOrders: the steps taken in descending step_order.
RECURSIVE DescendingOrders(_)
DescendingOrders(S) ==
    IF S = {} THEN <<>>
    ELSE LET m == CHOOSE x \in S : \A y \in S : x >= y
         IN <<m>> \o DescendingOrders(S \ {m})

\* steps.sort(key=lambda s: s.step_order)
RECURSIVE SortedOrders(_)
SortedOrders(S) ==
    IF S = {} THEN <<>>
    ELSE LET m == CHOOSE x \in S : \A y \in S : x <= y
         IN <<m>> \o SortedOrders(S \ {m})

\* Mutant of RemainingSteps: restart from the first step, ignoring the checkpoint.
RemainingSteps_FromStart(current_step_order) ==
    SortedOrders(DOMAIN workflow_steps)

\* execute: steps = [s for s in workflow.steps if s.step_order >= current_step_order],
\* sorted by step_order.
RemainingSteps(current_step_order) ==
    SortedOrders({o \in DOMAIN workflow_steps : o >= current_step_order})

\* Mutant of already_completed: a completed execution is driven like any other.
already_completed_never(execution) == FALSE

\* execute: execution.status == ExecutionStatus.COMPLETED.
already_completed(execution) == execution.status = "completed"

\* execute, lines 72-92 when the status needs no start_execution.
ExecuteLoad(w) ==
    /\ wpc[w] = "execute"
    /\ LET execution == executions[wmsg[w].execution_id]
           steps == RemainingSteps(execution.current_step_order)
       IN IF already_completed(execution)
          THEN /\ wpc' = [wpc EXCEPT ![w] = "ack"]
               /\ wresult' = [wresult EXCEPT ![w] =
                                 Returns("already_completed", execution.output_data)]
               /\ UNCHANGED <<wexec, wsteps>>
          ELSE IF execution.status = "cancelled"
          THEN /\ wpc' = [wpc EXCEPT ![w] = "reject"]
               /\ wresult' = [wresult EXCEPT ![w] = Raises("OrchestratorError")]
               /\ UNCHANGED <<wexec, wsteps>>
          ELSE IF execution.status \in {"pending", "retrying"}
          THEN /\ wpc' = [wpc EXCEPT ![w] = "start"]
               /\ UNCHANGED <<wexec, wsteps, wresult>>
          ELSE /\ wexec' = [wexec EXCEPT ![w] = Snapshot(execution)]
               /\ wsteps' = [wsteps EXCEPT ![w] = steps]
               /\ wpc' = [wpc EXCEPT ![w] = IF steps = <<>> THEN "complete" ELSE "step"]
               /\ UNCHANGED wresult
    /\ UNCHANGED <<sm_vars, order_vars, cancel_vars, build_vars, aux_vars, open, store_vars, queue_vars, wmsg, wattempt, wrec, winvoked,
                   crashes, api_vars>>

\* start_execution -> transition_status: get_execution and validate_transition.
\* An ExecutionStateError here is raised before execute's try block.
StartLoad(w) ==
    /\ wpc[w] = "start"
    /\ LET execution == executions[wmsg[w].execution_id]
       IN IF can_transition(execution.status, "running")
          THEN /\ wexec' = [wexec EXCEPT ![w] = Snapshot(execution)]
               /\ wpc' = [wpc EXCEPT ![w] = "start_write"]
          ELSE /\ wpc' = [wpc EXCEPT ![w] = "reject"]
               /\ UNCHANGED wexec
    /\ wresult' = [wresult EXCEPT ![w] = IF wpc'[w] = "reject"
                                         THEN Raises("ExecutionStateError") ELSE @]
    /\ UNCHANGED <<sm_vars, order_vars, cancel_vars, build_vars, aux_vars, open, store_vars, queue_vars, wmsg, wsteps, wattempt, wrec, winvoked, crashes, api_vars>>

\* transition_status's UPDATE to running; execute then selects the steps from
\* the execution transition_status returned.
StartWrite(w) ==
    /\ wpc[w] = "start_write"
    /\ LET id == wmsg[w].execution_id
           steps == RemainingSteps(wexec[w].current_step_order)
       IN /\ executions' = [executions EXCEPT
                               ![id] = update_execution_status(@, "running", <<>>, <<>>)]
          /\ wexec' = [wexec EXCEPT ![w].status = "running"]
          /\ wsteps' = [wsteps EXCEPT ![w] = steps]
          /\ wpc' = [wpc EXCEPT ![w] = IF steps = <<>> THEN "complete" ELSE "step"]
    /\ UNCHANGED <<ext_vars, aux_vars, open, workflow_steps, step_executions, queue_vars, wmsg, wattempt, wrec,
                   winvoked, crashes, api_vars>>

\* _execute_step up to the retry loop: one StepExecution row is inserted, the
\* handler is looked up; an unknown task_type or max_retries = 0 fails the step.
BeginStep(w) ==
    /\ wpc[w] = "step"
    /\ Len(step_executions) < MaxStepExecutions
    /\ LET step == workflow_steps[Head(wsteps[w])]
           rows == Append(step_executions,
                          StepExecution_create(wmsg[w].execution_id, step.step_order))
           runs == step.task_type \in Handlers /\ may_attempt(0, step)
       IN /\ step_executions' = IF runs THEN rows
                                ELSE update_step_execution(rows, Len(rows), "failed")
          /\ wrec' = [wrec EXCEPT ![w] = Len(rows)]
          /\ wpc' = [wpc EXCEPT ![w] = IF runs THEN "attempt" ELSE "step_failed"]
    /\ wattempt' = [wattempt EXCEPT ![w] = 0]
    /\ wslept' = [wslept EXCEPT ![w] = NoSleep]
    /\ UNCHANGED <<sm_vars, cancel_vars, wresult, build_vars, succeeded, wdone, aux_vars, open, workflow_steps,
                   executions, queue_vars, wmsg, wexec, wsteps, winvoked, crashes, api_vars, outputs>>

\* The head of one loop iteration: attempt += 1, the row goes to running, the
\* handler is invoked.
AttemptStart(w) ==
    /\ wpc[w] = "attempt"
    /\ wattempt' = [wattempt EXCEPT ![w] = @ + 1]
    /\ step_executions' = update_step_execution(step_executions, wrec[w], "running")
    /\ winvoked' = [winvoked EXCEPT ![w] = Append(@, Head(wsteps[w]))]
    /\ wpc' = [wpc EXCEPT ![w] = "handler"]
    /\ UNCHANGED <<ext_vars, aux_vars, open, workflow_steps, executions, queue_vars, wmsg, wexec, wsteps, wrec, crashes, api_vars>>

\* handler.execute returned: the row goes to completed, _execute_step returns.
HandlerReturns(w) ==
    /\ wpc[w] = "handler"
    /\ step_executions' = update_step_execution(step_executions, wrec[w], "completed")
    /\ wpc' = [wpc EXCEPT ![w] = "checkpoint"]
    /\ succeeded' = succeeded \cup {Head(wsteps[w])}
    /\ wdone' = [wdone EXCEPT ![w] = @ \cup {Head(wsteps[w])}]
    /\ UNCHANGED <<sm_vars, cancel_vars, wresult, wslept, build_vars, aux_vars, open, workflow_steps, executions, queue_vars, wmsg, wexec, wsteps, wattempt,
                   wrec, winvoked, crashes, api_vars, outputs>>

\* x doubled n times, the doubling given up once x is above cap: the exact
\* product x * 2^n wherever that is at most cap, and a value above cap elsewhere.
RECURSIVE DoubleTimes(_, _, _)
DoubleTimes(x, n, cap) ==
    IF n = 0 \/ x > cap THEN x ELSE DoubleTimes(2 * x, n - 1, cap)

Min(x, y) == IF x <= y THEN x ELSE y

\* Mutant of calculate_backoff: the delay grows by the base with each attempt.
calculate_backoff_linear(attempt) ==
    [raised |-> attempt >= FLOAT_MAX_EXP,
     delay |-> Min(RETRY_BASE_DELAY * attempt, RETRY_MAX_DELAY)]

\* _calculate_backoff: min(RETRY_BASE_DELAY * (2 ** attempt), RETRY_MAX_DELAY).
\* 2 ** attempt is an int of any size; the product with the float base
\* converts it to a float first, exactly up to 2 ** 1023, and raises
\* OverflowError from 2 ** 1024 on. Seconds are whole numbers here.
calculate_backoff(attempt) ==
    [raised |-> attempt >= FLOAT_MAX_EXP,
     delay |-> Min(DoubleTimes(RETRY_BASE_DELAY, attempt, RETRY_MAX_DELAY), RETRY_MAX_DELAY)]

\* handler.execute raised: log, then sleep and loop, or, on the last attempt,
\* _fail_step and StepExecutionError. An error of _calculate_backoff leaves
\* _execute_step from inside the except block and reaches execute's
\* `except Exception`.
HandlerRaises(w) ==
    /\ wpc[w] = "handler"
    /\ LET step == workflow_steps[Head(wsteps[w])]
           backoff == calculate_backoff(wattempt[w])
       IN IF may_attempt(wattempt[w], step)
          THEN IF backoff.raised
               THEN /\ wslept' = [wslept EXCEPT ![w].raised = TRUE]
                    /\ wpc' = [wpc EXCEPT ![w] = "unexpected"]
                    /\ UNCHANGED step_executions
               ELSE /\ wslept' = [wslept EXCEPT ![w].delays = Append(@, backoff.delay)]
                    /\ wpc' = [wpc EXCEPT ![w] = "attempt"]
                    /\ UNCHANGED step_executions
          ELSE /\ step_executions' = update_step_execution(step_executions, wrec[w], "failed")
               /\ wpc' = [wpc EXCEPT ![w] = "step_failed"]
               /\ UNCHANGED wslept
    /\ UNCHANGED <<sm_vars, cancel_vars, wresult, build_vars, succeeded, wdone, aux_vars, open, workflow_steps,
                   executions, queue_vars, wmsg, wexec, wsteps, wattempt, wrec, winvoked, crashes, api_vars, outputs>>

\* execute, lines 119-124: the progress write after a step, then the next step.
Checkpoint(w) ==
    /\ wpc[w] = "checkpoint"
    /\ LET id == wmsg[w].execution_id
           step == workflow_steps[Head(wsteps[w])]
       IN executions' = [executions EXCEPT
                            ![id] = update_execution_status(@, "running", <<>>,
                                                            <<step.step_order + 1>>)]
    /\ wsteps' = [wsteps EXCEPT ![w] = Tail(@)]
    /\ wpc' = [wpc EXCEPT ![w] = IF Tail(wsteps[w]) = <<>> THEN "complete" ELSE "step"]
    /\ UNCHANGED <<ext_vars, aux_vars, open, workflow_steps, step_executions, queue_vars, wmsg, wexec, wattempt,
                   wrec, winvoked, crashes, api_vars>>

\* fail_execution -> transition_status: load, validate. It is called by
\* _handle_step_failure (position step_failed) and by execute's
\* `except Exception` (position unexpected). An ExecutionStateError raised
\* under _handle_step_failure is caught by `except Exception`; raised under
\* `except Exception` it leaves execute.
FailLoad(w) ==
    /\ wpc[w] \in {"step_failed", "unexpected"}
    /\ LET execution == executions[wmsg[w].execution_id]
           valid == can_transition(execution.status, "failed")
       IN wpc' = [wpc EXCEPT ![w] =
                     IF wpc[w] = "step_failed"
                     THEN (IF valid THEN "fail_write" ELSE "unexpected")
                     ELSE (IF valid THEN "unexpected_write" ELSE "reject")]
    /\ wresult' = [wresult EXCEPT ![w] = IF wpc'[w] = "reject"
                                         THEN Raises("ExecutionStateError") ELSE @]
    /\ UNCHANGED <<sm_vars, order_vars, cancel_vars, build_vars, aux_vars, open, store_vars, queue_vars, wmsg, wexec, wsteps, wattempt, wrec, winvoked,
                   crashes, api_vars>>

\* Mutant of process_outcome: the message is acknowledged either way.
process_outcome_ack(raised) == "ack"

\* Worker._process_one: acknowledge after orchestrator.execute returned,
\* reject in `except Exception`.
process_outcome(raised) == IF raised THEN "reject" ELSE "ack"

\* fail_execution's UPDATE to failed. After _handle_step_failure execute
\* returns {"status": "failed"}; `except Exception` raises OrchestratorError.
FailWrite(w) ==
    /\ wpc[w] \in {"fail_write", "unexpected_write"}
    /\ LET step == workflow_steps[Head(wsteps[w])]
           error_message ==
               IF wpc[w] = "fail_write"
               THEN <<"Step '", step.name, "' failed: ">> \o step_error(step)
               ELSE IF wslept[w].raised
               THEN <<"Unexpected error: ", "int too large to convert to float">>
               ELSE <<"Unexpected error: ", "Invalid transition">>
       IN executions' = [executions EXCEPT ![wmsg[w].execution_id] =
                            update_execution_status(@, "failed", error_message, <<>>)]
    /\ wpc' = [wpc EXCEPT ![w] = process_outcome(wpc[w] # "fail_write")]
    /\ wresult' = [wresult EXCEPT ![w] = IF wpc[w] = "fail_write"
                                         THEN Returns("failed", NULL)
                                         ELSE Raises("OrchestratorError")]
    /\ UNCHANGED <<sm_vars, order_vars, cancel_vars, build_vars, aux_vars, open, workflow_steps, step_executions, queue_vars, wmsg, wexec, wsteps,
                   wattempt, wrec, winvoked, crashes, api_vars>>

\* complete_execution -> transition_status: load, validate.
CompleteLoad(w) ==
    /\ wpc[w] = "complete"
    /\ LET execution == executions[wmsg[w].execution_id]
       IN wpc' = [wpc EXCEPT ![w] = IF can_transition(execution.status, "completed")
                                    THEN "complete_write" ELSE "unexpected"]
    /\ UNCHANGED <<ext_vars, aux_vars, open, store_vars, queue_vars, wmsg, wexec, wsteps, wattempt, wrec, winvoked, crashes, api_vars>>

CompleteWrite(w) ==
    /\ wpc[w] = "complete_write"
    /\ executions' = [executions EXCEPT ![wmsg[w].execution_id] =
                         update_execution_status(@, "completed", <<>>, <<>>)]
    /\ wpc' = [wpc EXCEPT ![w] = "set_output"]
    /\ UNCHANGED <<ext_vars, aux_vars, open, workflow_steps, step_executions, queue_vars, wmsg, wexec, wsteps,
                   wattempt, wrec, winvoked, crashes, api_vars>>

\* execute: {"steps": step_outputs, "final_data": current_data}, where
\* step_outputs and current_data = input_data.copy() start afresh in each
\* call and take the output of each step whose _execute_step returned in it.
final_output(done) ==
    [steps |-> {workflow_steps[o].name : o \in done},
     final_data |-> <<"input_data">> \o
                    [i \in 1..Cardinality(done) |-> workflow_steps[SortedOrders(done)[i]].name]]

\* complete_execution's set_output_data; execute returns {"status": "completed"}.
SetOutput(w) ==
    /\ wpc[w] = "set_output"
    /\ executions' = [executions EXCEPT ![wmsg[w].execution_id] = set_output_data(@)]
    /\ outputs' = [e \in DOMAIN outputs \cup {wmsg[w].execution_id} |->
                      IF e = wmsg[w].execution_id THEN final_output(wdone[w]) ELSE outputs[e]]
    /\ wpc' = [wpc EXCEPT ![w] = "ack"]
    /\ wresult' = [wresult EXCEPT ![w] = Returns("completed", "set")]
    /\ UNCHANGED <<sm_vars, succeeded, wdone, wslept, cancel_vars, build_vars, aux_vars, open, workflow_steps, step_executions, queue_vars, wmsg, wexec, wsteps,
                   wattempt, wrec, winvoked, crashes, api_vars>>

\* The worker process is killed while it holds a message; a new worker idles.
Crash(w) ==
    /\ wpc[w] # "idle"
    /\ crashes < MaxCrashes
    /\ crashes' = crashes + 1
    /\ wpc' = [wpc EXCEPT ![w] = "idle"]
    /\ wmsg' = [wmsg EXCEPT ![w] = NoMsg]
    /\ IdleLocals(w)
    /\ winvoked' = [winvoked EXCEPT ![w] = <<>>]
    /\ UNCHANGED <<sm_vars, cancel_vars, wresult, build_vars, succeeded, wdone, aux_vars, open, store_vars,
                   queue_vars, api_vars, outputs>>

\* ------------------------------------------------------- execution service
\* retry_execution: get_execution and the two checks; an ExecutionStateError
\* ends the call.
RetryLoad(r) ==
    /\ rpc[r] = "idle"
    /\ retry_calls < MaxRetryCalls
    /\ retry_calls' = retry_calls + 1
    /\ LET execution == executions[E1]
       IN IF execution.status = "failed" /\ execution.retry_count < execution.max_retries
          THEN /\ rpc' = [rpc EXCEPT ![r] = "increment"]
               /\ rexec' = [rexec EXCEPT ![r] = Snapshot(execution)]
          ELSE UNCHANGED <<rpc, rexec>>
    /\ UNCHANGED <<ext_vars, aux_vars, open, store_vars, queue_vars, worker_vars, cpc, cancel_calls>>

\* retry_execution: increment_retry_count, the UPDATE ... retry_count + 1.
RetryIncrement(r) ==
    /\ rpc[r] = "increment"
    /\ executions' = [executions EXCEPT ![E1] = increment_retry_count(@)]
    /\ rpc' = [rpc EXCEPT ![r] = "transition"]
    /\ UNCHANGED <<ext_vars, aux_vars, open, workflow_steps, step_executions, queue_vars, worker_vars, rexec,
                   retry_calls, cpc, cancel_calls>>

\* retry_execution -> transition_status(RETRYING): load and validate.
RetryTransitionLoad(r) ==
    /\ rpc[r] = "transition"
    /\ IF can_transition(executions[E1].status, "retrying")
       THEN rpc' = [rpc EXCEPT ![r] = "write"]
       ELSE rpc' = [rpc EXCEPT ![r] = "idle"]
    /\ UNCHANGED <<ext_vars, aux_vars, open, store_vars, queue_vars, worker_vars, rexec, retry_calls, cpc,
                   cancel_calls>>

\* ... its UPDATE to retrying.
RetryWrite(r) ==
    /\ rpc[r] = "write"
    /\ executions' = [executions EXCEPT
                         ![E1] = update_execution_status(@, "retrying", <<>>, <<>>)]
    /\ rpc' = [rpc EXCEPT ![r] = "enqueue"]
    /\ UNCHANGED <<ext_vars, aux_vars, open, workflow_steps, step_executions, queue_vars, worker_vars, rexec,
                   retry_calls, cpc, cancel_calls>>

\* The retry route's queue.enqueue(execution_id=execution.id): no idempotency
\* key, no delay.
RetryEnqueue(r) ==
    /\ rpc[r] = "enqueue"
    /\ msgs_created' = msgs_created + 1
    /\ queue' = LPush(queue, to_json(QueueMessage_create(E1, msgs_created + 1)))
    /\ rpc' = [rpc EXCEPT ![r] = "idle"]
    /\ rexec' = [rexec EXCEPT ![r] = NoExec]
    /\ UNCHANGED <<ext_vars, aux_vars, open, store_vars, processing, ttl_keys, dlq, deliveries, worker_vars, retry_calls, cpc,
                   cancel_calls>>

\* Worker w is inside orchestrator.execute, past the load of the execution.
Driving(w) == wpc[w] \notin {"idle", "execute", "start", "ack", "reject"}

\* cancel_execution: get_execution and the is_terminal check.
CancelLoad(c) ==
    /\ cpc[c] = "idle"
    /\ cancel_calls < MaxCancelCalls
    /\ cancel_calls' = cancel_calls + 1
    /\ cexec' = [cexec EXCEPT ![c] = executions[E1].status]
    /\ IF is_terminal(executions[E1].status)
       THEN UNCHANGED cpc
       ELSE cpc' = [cpc EXCEPT ![c] = "transition"]
    /\ UNCHANGED <<sm_vars, order_vars, build_vars, wcancel, wresult, aux_vars, open, store_vars, queue_vars, worker_vars, rpc, rexec, retry_calls>>

\* cancel_execution -> transition_status(CANCELLED): load and validate.
CancelTransitionLoad(c) ==
    /\ cpc[c] = "transition"
    /\ IF can_transition(executions[E1].status, "cancelled")
       THEN cpc' = [cpc EXCEPT ![c] = "write"]
       ELSE cpc' = [cpc EXCEPT ![c] = "idle"]
    /\ UNCHANGED <<ext_vars, aux_vars, open, store_vars, queue_vars, worker_vars, rpc, rexec, retry_calls,
                   cancel_calls>>

\* ... its UPDATE to cancelled.
CancelWrite(c) ==
    /\ cpc[c] = "write"
    /\ executions' = [executions EXCEPT
                         ![E1] = update_execution_status(@, "cancelled", <<>>, <<>>)]
    /\ cpc' = [cpc EXCEPT ![c] = "idle"]
    /\ wcancel' = [w \in Workers |->
                      \/ wcancel[w]
                      \/ /\ Driving(w)
                         /\ cexec[c] = "running"
                         /\ executions[E1].status = "running"]
    /\ UNCHANGED <<sm_vars, order_vars, build_vars, cexec, wresult, aux_vars, open, workflow_steps, step_executions, queue_vars, worker_vars, rpc, rexec,
                   retry_calls, cancel_calls>>

\* ------------------------------------- task queue, one Redis command a step
Sweepers == {"s1"}
MessageIds == 1..QueueMessages

ListIds(list) == {from_json(list[i]).id : i \in 1..Len(list)}

\* dequeue, first command: BRPOPLPUSH Q -> Q:processing.
BrpoplpushWithin(w, at, pops) ==
    /\ wpc[w] = at
    /\ queue # <<>>
    /\ deliveries < pops
    /\ deliveries' = deliveries + 1
    /\ LET result == queue[Len(queue)]
       IN /\ queue' = SubSeq(queue, 1, Len(queue) - 1)
          /\ processing' = LPush(processing, result)
          /\ wmsg' = [wmsg EXCEPT ![w] = from_json(result)]
    /\ wpc' = [wpc EXCEPT ![w] = "popped"]
    /\ open' = [open EXCEPT ![w] = TRUE]
    /\ popped' = Append(popped, from_json(queue[Len(queue)]).id)
    /\ UNCHANGED <<ext_vars, create_vars, enqueue_vars, spc, smessages, released, pushed, requeued, count_vars,
                   store_vars, ttl_keys, dlq, msgs_created, wexec, wsteps,
                   wattempt, wrec, winvoked, crashes, api_vars>>

Brpoplpush(w, at) == BrpoplpushWithin(w, at, MaxPops)

\* dequeue when Q:delayed is empty: its promotion of delayed messages reads
\* nothing and does nothing.
Pop(w) == Brpoplpush(w, "idle")

\* dequeue, second command: SETEX of the visibility key; dequeue returns.
Setex(w) ==
    /\ wpc[w] = "popped"
    /\ ttl_keys' = ttl_keys \cup {wmsg[w].id}
    /\ wpc' = [wpc EXCEPT ![w] = "held"]
    /\ UNCHANGED <<ext_vars, aux_vars, open, store_vars, queue, processing, dlq, msgs_created,
                   deliveries, wmsg, wexec, wsteps, wattempt, wrec, winvoked, crashes,
                   api_vars>>

\* _process_one: orchestrator.execute returned; the worker goes to acknowledge.
ExecuteReturns(w) ==
    /\ wpc[w] = "held"
    /\ wpc' = [wpc EXCEPT ![w] = "ack_lrem"]
    /\ open' = [open EXCEPT ![w] = FALSE]
    /\ UNCHANGED <<ext_vars, aux_vars, store_vars, queue_vars, wmsg, wexec, wsteps, wattempt, wrec,
                   winvoked, crashes, api_vars>>

\* _process_one: orchestrator.execute raised; the worker goes to reject.
ExecuteRaises(w) ==
    /\ wpc[w] = "held"
    /\ wpc' = [wpc EXCEPT ![w] = "reject_lrem"]
    /\ open' = [open EXCEPT ![w] = FALSE]
    /\ UNCHANGED <<ext_vars, aux_vars, store_vars, queue_vars, wmsg, wexec, wsteps, wattempt, wrec,
                   winvoked, crashes, api_vars>>

\* acknowledge and reject, first command: LREM Q:processing 1 <JSON>.
Lrem(w) ==
    /\ wpc[w] \in {"ack_lrem", "reject_lrem"}
    /\ processing' = LRem(processing, to_json(wmsg[w]))
    /\ released' = released \cup {wmsg[w].id}
    /\ wpc' = [wpc EXCEPT ![w] = IF wpc[w] = "ack_lrem" THEN "ack_del" ELSE "reject_del"]
    /\ UNCHANGED <<ext_vars, create_vars, spc, smessages, fifo_vars, count_vars, enqueue_vars, open, store_vars, queue,
                   ttl_keys, dlq, msgs_created, deliveries, wmsg, wexec, wsteps, wattempt,
                   wrec, winvoked, crashes, api_vars>>

\* acknowledge and reject, second command: DEL Q:processing:<id>.
Del(w) ==
    /\ wpc[w] \in {"ack_del", "reject_del"}
    /\ ttl_keys' = ttl_keys \ {wmsg[w].id}
    /\ wpc' = [wpc EXCEPT ![w] = IF wpc[w] = "ack_del" THEN "idle" ELSE "reject_push"]
    /\ wmsg' = [wmsg EXCEPT ![w] = IF wpc[w] = "ack_del" THEN NoMsg ELSE @]
    /\ UNCHANGED <<ext_vars, aux_vars, open, store_vars, queue, processing, dlq, msgs_created,
                   deliveries, wexec, wsteps, wattempt, wrec, winvoked, crashes, api_vars>>

\* reject, third command: LPUSH to Q:dlq, or to Q with attempt + 1.
RejectPush(w) ==
    /\ wpc[w] = "reject_push"
    /\ LET message == wmsg[w]
       IN IF send_to_dlq(message)
          THEN /\ dlq' = LPush(dlq, to_json([message EXCEPT !.payload = "rejected"]))
               /\ queue' = queue
          ELSE /\ queue' = LPush(queue, to_json([message EXCEPT !.attempt = @ + 1]))
               /\ dlq' = dlq
    /\ requeued' = IF send_to_dlq(wmsg[w]) THEN requeued ELSE requeued \cup {wmsg[w].id}
    /\ wpc' = [wpc EXCEPT ![w] = "idle"]
    /\ wmsg' = [wmsg EXCEPT ![w] = NoMsg]
    /\ UNCHANGED <<ext_vars, create_vars, enqueue_vars, spc, smessages, released, pushed, popped, count_vars,
                   open, store_vars, processing, ttl_keys, msgs_created,
                   deliveries, wexec, wsteps, wattempt, wrec, winvoked, crashes, api_vars>>

\* The worker process is killed anywhere between two commands.
Kill(w) ==
    /\ wpc[w] # "idle"
    /\ crashes < MaxCrashes
    /\ crashes' = crashes + 1
    /\ wpc' = [wpc EXCEPT ![w] = "idle"]
    /\ wmsg' = [wmsg EXCEPT ![w] = NoMsg]
    /\ open' = [open EXCEPT ![w] = FALSE]
    /\ UNCHANGED <<ext_vars, aux_vars, store_vars, queue_vars, wexec, wsteps, wattempt, wrec,
                   winvoked, api_vars>>

\* The sweeper's position after it is done with the head of its snapshot.
NextEntry(s) ==
    /\ smessages' = [smessages EXCEPT ![s] = Tail(@)]
    /\ spc' = [spc EXCEPT ![s] = IF Tail(smessages[s]) = <<>> THEN "idle" ELSE "exists"]

\* recover_stale_messages: LRANGE Q:processing 0 -1.
SweepRangeAt(s, at) ==
    /\ spc[s] = at
    /\ processing # <<>>
    /\ smessages' = [smessages EXCEPT ![s] = processing]
    /\ spc' = [spc EXCEPT ![s] = "exists"]
    /\ srecovered' = [srecovered EXCEPT ![s] = 0]
    /\ sremoved' = [sremoved EXCEPT ![s] = 0]
    /\ UNCHANGED <<ext_vars, create_vars, released, fifo_vars, enqueue_vars, open, store_vars, queue_vars,
                   worker_vars, api_vars, dequeue_vars>>

SweepRange(s) == SweepRangeAt(s, "idle")

\* recover_stale_messages: EXISTS Q:processing:<id> for the next entry.
SweepExists(s) ==
    /\ spc[s] = "exists"
    /\ IF key_exists(ttl_keys, from_json(Head(smessages[s])).id)
       THEN NextEntry(s)
       ELSE /\ spc' = [spc EXCEPT ![s] = "lrem"]
            /\ UNCHANGED smessages
    /\ UNCHANGED <<ext_vars, create_vars, released, fifo_vars, count_vars, enqueue_vars, open, store_vars, queue_vars,
                   worker_vars, api_vars>>

\* recover_stale_messages: LREM Q:processing 1 msg_json (its count is not read).
SweepLrem(s) ==
    /\ spc[s] = "lrem"
    /\ processing' = LRem(processing, Head(smessages[s]))
    /\ spc' = [spc EXCEPT ![s] = "push"]
    /\ sremoved' = [sremoved EXCEPT ![s] = @ + Len(processing) - Len(processing')]
    /\ UNCHANGED <<ext_vars, create_vars, smessages, released, fifo_vars, srecovered, enqueue_vars, open, store_vars, queue,
                   ttl_keys, dlq, msgs_created, deliveries, worker_vars, api_vars, dequeue_vars>>

\* recover_stale_messages: attempt += 1, then LPUSH to Q or to Q:dlq, and
\* recovered += 1.
SweepPush(s) ==
    /\ spc[s] = "push"
    /\ LET message == from_json(Head(smessages[s]))
           bumped == [message EXCEPT !.attempt = @ + 1]
       IN IF bumped.attempt <= RECOVER_MAX_ATTEMPTS
          THEN /\ queue' = LPush(queue, to_json(bumped))
               /\ dlq' = dlq
          ELSE /\ dlq' = LPush(dlq, to_json([bumped EXCEPT
                                                !.payload = "max_attempts_exceeded"]))
               /\ queue' = queue
    /\ requeued' = IF from_json(Head(smessages[s])).attempt + 1 <= RECOVER_MAX_ATTEMPTS
                   THEN requeued \cup {from_json(Head(smessages[s])).id} ELSE requeued
    /\ srecovered' = [srecovered EXCEPT ![s] = @ + 1]
    /\ NextEntry(s)
    /\ UNCHANGED <<ext_vars, create_vars, released, pushed, popped, sremoved, enqueue_vars, open, store_vars, processing,
                   ttl_keys, msgs_created, deliveries, worker_vars, api_vars, dequeue_vars>>

\* ------------------------------------------------------- TaskQueue.enqueue
Producers == {"p1", "p2"}
IdemKeys == {"", "k1"}
RealKeys == IdemKeys \ {""}
Delays == {0, DelaySeconds}

NoKey == [state |-> "absent", deadline |-> 0]
NoCall == [key |-> "", delay |-> 0, life |-> 0]

\* A key with a TTL is gone once its deadline has passed.
key_live(k) ==
    \/ idem[k].state = "persist"
    \/ idem[k].state = "expiring" /\ now < idem[k].deadline

\* Mutant of setnx: the key is taken to be free on every call.
setnx_always(k) == TRUE

\* redis.setnx(idem_key, "1"): TRUE when the key was set.
setnx(k) == ~key_live(k)

\* enqueue up to its first command. `if idempotency_key:` skips the check for
\* None and for the empty string; SETNX creates the key without a TTL.
EnqueueSetnx(p, k, d) ==
    /\ ppc[p] = "idle"
    /\ enq_calls < MaxEnqueues
    /\ enq_calls' = enq_calls + 1
    /\ IF k = ""
       THEN /\ ppc' = [ppc EXCEPT ![p] = "create"]
            /\ pcall' = [pcall EXCEPT ![p] = [key |-> k, delay |-> d, life |-> 0]]
            /\ presult' = [presult EXCEPT ![p] = "none"]
            /\ pexisted' = [pexisted EXCEPT ![p] = FALSE]
            /\ UNCHANGED <<idem, life>>
       ELSE LET existed == key_live(k)
                born == IF existed THEN life[k] ELSE life[k] + 1
            IN /\ pexisted' = [pexisted EXCEPT ![p] = existed]
               /\ life' = [life EXCEPT ![k] = born]
               /\ IF setnx(k)
                  THEN /\ idem' = [idem EXCEPT ![k] = [state |-> "persist", deadline |-> 0]]
                       /\ ppc' = [ppc EXCEPT ![p] = "expire"]
                       /\ pcall' = [pcall EXCEPT
                                       ![p] = [key |-> k, delay |-> d, life |-> born]]
                       /\ presult' = [presult EXCEPT ![p] = "none"]
                  ELSE /\ presult' = [presult EXCEPT ![p] = "null"]
                       /\ UNCHANGED <<idem, ppc, pcall>>
    /\ UNCHANGED <<ext_vars, create_vars, sweep_vars, open, store_vars, queue_vars, worker_vars,
                   api_vars, now, delayed, adds>>

\* redis.expire(idem_key, 86400)
EnqueueExpire(p) ==
    /\ ppc[p] = "expire"
    /\ idem' = [idem EXCEPT ![pcall[p].key] =
                   IF key_live(pcall[p].key)
                   THEN [state |-> "expiring", deadline |-> now + IDEMPOTENCY_TTL]
                   ELSE NoKey]
    /\ ppc' = [ppc EXCEPT ![p] = "create"]
    /\ UNCHANGED <<ext_vars, create_vars, sweep_vars, open, store_vars, queue_vars, worker_vars,
                   api_vars, now, delayed, pcall, presult, pexisted, life, adds, enq_calls>>

\* QueueMessage.create, then ZADD Q:delayed or LPUSH Q; the message is returned.
EnqueuePush(p) ==
    /\ ppc[p] = "create"
    /\ LET message == QueueMessage_create(E1, msgs_created + 1)
           c == pcall[p]
       IN /\ msgs_created' = msgs_created + 1
          /\ IF c.delay > 0
             THEN /\ delayed' = delayed \cup {<<to_json(message), now + c.delay>>}
                  /\ queue' = queue
             ELSE /\ queue' = LPush(queue, to_json(message))
                  /\ delayed' = delayed
          /\ adds' = IF c.key = "" THEN adds
                     ELSE [adds EXCEPT ![c.key][c.life] = @ + 1]
    /\ ppc' = [ppc EXCEPT ![p] = "idle"]
    /\ presult' = [presult EXCEPT ![p] = "message"]
    /\ pushed' = IF pcall[p].delay > 0 THEN pushed ELSE Append(pushed, msgs_created + 1)
    /\ due' = IF pcall[p].delay > 0 THEN due @@ ((msgs_created + 1) :> (now + pcall[p].delay))
              ELSE due
    /\ UNCHANGED <<ext_vars, create_vars, spc, smessages, released, popped, requeued, srecovered, sremoved,
                   wready, open, store_vars,
                   processing, ttl_keys, dlq,
                   deliveries, worker_vars, api_vars, now, idem, pcall, pexisted, life,
                   enq_calls, loop_vars>>

\* ZRANGEBYSCORE order: by score, then by member.
RECURSIVE ByScore(_)
ByScore(S) ==
    IF S = {} THEN <<>>
    ELSE LET m == CHOOSE x \in S :
                      \A y \in S : x[2] < y[2] \/ (x[2] = y[2] /\ x[1][1] <= y[1][1])
         IN <<m[1]>> \o ByScore(S \ {m})

RECURSIVE LPushAll(_, _)
LPushAll(list, xs) ==
    IF xs = <<>> THEN list ELSE LPushAll(LPush(list, Head(xs)), Tail(xs))

\* _move_ready_delayed_messages: the members with score <= now go to Q.
MoveReadyDelayed ==
    /\ LET ready == {m \in delayed : m[2] <= now}
       IN /\ ready # {}
          /\ queue' = LPushAll(queue, ByScore(ready))
          /\ delayed' = delayed \ ready
    /\ UNCHANGED <<ext_vars, create_vars, sweep_vars, open, store_vars, processing, ttl_keys, dlq,
                   msgs_created, deliveries, worker_vars, api_vars, now, idem, ppc, pcall,
                   presult, pexisted, life, adds, enq_calls>>

\* Mutant of is_ready: a message is ready only after its score.
is_ready_after(score, time) == score < time

\* ZRANGEBYSCORE Q:delayed 0 now
is_ready(score, time) == score <= time

\* dequeue -> _move_ready_delayed_messages, first command: ZRANGEBYSCORE;
\* nothing more is done when no member is ready.
DequeueRangeAt(w, at) ==
    /\ wpc[w] = at
    /\ LET messages == ByScore({m \in delayed : is_ready(m[2], now)})
       IN /\ wready' = [wready EXCEPT ![w] = messages]
          /\ wpc' = [wpc EXCEPT ![w] = IF messages = <<>> THEN "pop" ELSE "pipe"]
    /\ UNCHANGED <<ext_vars, create_vars, spc, smessages, released, fifo_vars, srecovered,
                   sremoved, due, enqueue_vars, open, store_vars, queue_vars, wmsg, wexec,
                   wsteps, wattempt, wrec, winvoked, crashes, api_vars, loop_vars>>

DequeueRange(w) == DequeueRangeAt(w, "idle")

\* dequeue -> _move_ready_delayed_messages: the pipeline, one transaction of
\* LPUSH Q and ZREM Q:delayed for each member read.
DequeuePipe(w) ==
    /\ wpc[w] = "pipe"
    /\ queue' = LPushAll(queue, wready[w])
    /\ delayed' = {m \in delayed : m[1] \notin Range(wready[w])}
    /\ wpc' = [wpc EXCEPT ![w] = "pop"]
    /\ UNCHANGED <<ext_vars, create_vars, sweep_vars, open, store_vars, processing, ttl_keys, dlq,
                   msgs_created, deliveries, wmsg, wexec, wsteps, wattempt, wrec, winvoked,
                   crashes, api_vars, now, idem, ppc, pcall, presult, pexisted, life, adds,
                   enq_calls>>

\* dequeue: BRPOPLPUSH timed out on an empty Q, dequeue returns None.
DequeueNone(w) ==
    /\ wpc[w] = "pop"
    /\ queue = <<>>
    /\ wpc' = [wpc EXCEPT ![w] = "idle"]
    /\ UNCHANGED <<ext_vars, aux_vars, open, store_vars, queue_vars, wmsg, wexec, wsteps,
                   wattempt, wrec, winvoked, crashes, api_vars>>

\* Time passes.
Tick ==
    /\ now < MaxTime
    /\ now' = now + TickSeconds
    /\ UNCHANGED <<ext_vars, create_vars, sweep_vars, open, store_vars, queue_vars, worker_vars,
                   api_vars, idem, delayed, ppc, pcall, presult, pexisted, life, adds,
                   enq_calls>>

\* ------------------------------------- ExecutionService.create_execution
CreateCallers == {"x1", "x2", "x3"}
ExecutionKeys == {"k1", "k2"}
ExecutionIds == <<"e1", "e2", "e3">>

NoResult == [kind |-> "none", id |-> NULL]

\* get_execution_by_idempotency_key: the ids of the matching rows.
get_execution_by_idempotency_key(workflow_id, idempotency_key) ==
    {e \in DOMAIN executions :
        /\ executions[e].workflow_id = workflow_id
        /\ executions[e].idempotency_key = idempotency_key}

\* The store's unique constraint on (workflow_id, idempotency_key): an INSERT
\* of a second row for the pair is refused.
unique_violation(workflow_id, idempotency_key) ==
    get_execution_by_idempotency_key(workflow_id, idempotency_key) # {}

\* Mutant of may_execute: a draft workflow may be executed too.
may_execute_draft(workflow) == workflow \in {"active", "draft"}

\* create_execution: the workflow exists and workflow.status == ACTIVE; the
\* status of a missing workflow is NULL here.
may_execute(workflow) == workflow # NULL /\ workflow = "active"

\* create_execution: get_workflow_by_id and the status check.
CreateCheckWorkflow(x, k) ==
    /\ xpc[x] = "idle"
    /\ xresult[x] = NoResult
    /\ xkey' = [xkey EXCEPT ![x] = k]
    /\ xstatus' = [xstatus EXCEPT ![x] = workflow_status]
    /\ IF ~may_execute(workflow_status)
       THEN /\ xresult' = [xresult EXCEPT ![x] = [kind |-> "service_error", id |-> NULL]]
            /\ UNCHANGED xpc
       ELSE /\ xpc' = [xpc EXCEPT ![x] = "lookup"]
            /\ UNCHANGED xresult
    /\ UNCHANGED <<ext_vars, workflow_status, xlogs, sweep_vars, enqueue_vars, open, store_vars,
                   queue_vars, worker_vars, api_vars, xanswer>>

\* create_execution: the SELECT by key; DuplicateExecutionError(existing).
CreateLookup(x) ==
    /\ xpc[x] = "lookup"
    /\ LET existing == get_execution_by_idempotency_key(W1, xkey[x])
       IN IF existing # {}
          THEN /\ xresult' = [xresult EXCEPT
                                 ![x] = [kind |-> "duplicate",
                                         id |-> CHOOSE e \in existing : TRUE]]
               /\ xpc' = [xpc EXCEPT ![x] = "idle"]
          ELSE /\ xpc' = [xpc EXCEPT ![x] = "insert"]
               /\ UNCHANGED xresult
    /\ UNCHANGED <<ext_vars, workflow_status, xkey, xstatus, xlogs, sweep_vars, enqueue_vars, open,
                   store_vars, queue_vars, worker_vars, api_vars, xanswer>>

\* create_execution: WorkflowExecution.create and the INSERT, after which the
\* creation is logged and the execution returned. A refused INSERT leaves
\* create_execution as the driver's error.
CreateInsert(x) ==
    /\ xpc[x] = "insert"
    /\ IF unique_violation(W1, xkey[x])
       THEN /\ xresult' = [xresult EXCEPT ![x] = [kind |-> "integrity_error", id |-> NULL]]
            /\ xpc' = [xpc EXCEPT ![x] = "idle"]
            /\ UNCHANGED executions
       ELSE LET id == ExecutionIds[Cardinality(DOMAIN executions) + 1]
            IN /\ executions' = executions @@
                                   (id :> WorkflowExecution_create(W1, xkey[x], DEFAULT_MAX_RETRIES))
               /\ xresult' = [xresult EXCEPT ![x] = [kind |-> "created", id |-> id]]
               /\ xpc' = [xpc EXCEPT ![x] = "log"]
    /\ UNCHANGED <<ext_vars, workflow_status, xkey, xstatus, xlogs, sweep_vars, enqueue_vars, open,
                   workflow_steps, step_executions, queue_vars, worker_vars, api_vars, xanswer>>

\* create_execution: self._log(execution.id, INFO, "Execution created ..."),
\* one INSERT into execution_logs.
CreateLog(x) ==
    /\ xpc[x] = "log"
    /\ xlogs' = xlogs \cup {xresult[x].id}
    /\ xpc' = [xpc EXCEPT ![x] = "idle"]
    /\ UNCHANGED <<ext_vars, workflow_status, xkey, xstatus, xresult, sweep_vars, enqueue_vars,
                   open, store_vars, queue_vars, worker_vars, api_vars, xanswer>>

\* ------------------------------------------ POST /api/v1/executions
NoAnswer == 0

\* trigger_execution's idempotency_key argument of enqueue,
\* f"{workflow_id}:{idempotency_key}": with the one workflow W1 the key of the
\* pair stands for that string.
enqueue_key(workflow_id, idempotency_key) == idempotency_key

\* Mutant of answer_of: a refused INSERT is answered like a duplicate.
answer_of_refused_as_duplicate(kind) ==
    IF kind \in {"duplicate", "integrity_error"} THEN 200 ELSE 400

\* trigger_execution's except clauses: DuplicateExecutionError -> 200, any
\* other exception -> 400.
answer_of(kind) == IF kind = "duplicate" THEN 200 ELSE 400

\* trigger_execution: create_execution raised.
TriggerCatch(x) ==
    /\ xpc[x] = "idle"
    /\ xanswer[x] = NoAnswer
    /\ xresult[x].kind \in {"service_error", "duplicate", "integrity_error"}
    /\ xanswer' = [xanswer EXCEPT ![x] = answer_of(xresult[x].kind)]
    /\ UNCHANGED <<ext_vars, workflow_status, xpc, xkey, xresult, xstatus, xlogs, sweep_vars,
                   enqueue_vars, open, store_vars, queue_vars, worker_vars, api_vars>>

\* trigger_execution -> queue.enqueue, first command: SETNX of the pair's
\* key; enqueue returns None when the key exists, and the route answers 201.
TriggerSetnx(x) ==
    /\ xpc[x] = "idle"
    /\ xanswer[x] = NoAnswer
    /\ xresult[x].kind = "created"
    /\ LET k == enqueue_key(W1, xkey[x])
       IN IF setnx(k)
          THEN /\ idem' = [idem EXCEPT ![k] = [state |-> "persist", deadline |-> 0]]
               /\ xpc' = [xpc EXCEPT ![x] = "expire"]
               /\ UNCHANGED xanswer
          ELSE /\ xanswer' = [xanswer EXCEPT ![x] = 201]
               /\ UNCHANGED <<idem, xpc>>
    /\ UNCHANGED <<ext_vars, workflow_status, xkey, xresult, xstatus, xlogs, sweep_vars, open,
                   store_vars, queue_vars, worker_vars, api_vars, now, delayed, ppc, pcall,
                   presult, pexisted, life, adds, enq_calls>>

\* trigger_execution -> queue.enqueue: redis.expire(idem_key, 86400).
TriggerExpire(x) ==
    /\ xpc[x] = "expire"
    /\ LET k == enqueue_key(W1, xkey[x])
       IN idem' = [idem EXCEPT ![k] =
                      IF key_live(k)
                      THEN [state |-> "expiring", deadline |-> now + IDEMPOTENCY_TTL]
                      ELSE NoKey]
    /\ xpc' = [xpc EXCEPT ![x] = "push"]
    /\ UNCHANGED <<ext_vars, workflow_status, xkey, xresult, xstatus, xlogs, xanswer, sweep_vars,
                   open, store_vars, queue_vars, worker_vars, api_vars, now, delayed, ppc, pcall,
                   presult, pexisted, life, adds, enq_calls>>

\* trigger_execution -> queue.enqueue: QueueMessage.create and LPUSH Q (the
\* delay is 0 without scheduled_at); then the 201 answer.
TriggerPush(x) ==
    /\ xpc[x] = "push"
    /\ queue' = LPush(queue, to_json(QueueMessage_create(xresult[x].id, msgs_created + 1)))
    /\ msgs_created' = msgs_created + 1
    /\ xpc' = [xpc EXCEPT ![x] = "idle"]
    /\ xanswer' = [xanswer EXCEPT ![x] = 201]
    /\ UNCHANGED <<ext_vars, workflow_status, xkey, xresult, xstatus, xlogs, sweep_vars,
                   enqueue_vars, open, store_vars, processing, ttl_keys, dlq, deliveries,
                   worker_vars, api_vars>>

\* -------------------------------------------------------- workflow service
Adders == {"a1", "a2"}
Activators == {"v1"}
StepOrders == (0 - 1)..MaxStepOrder

NoWorkflow == [step_order |-> 0, status |-> NULL, steps |-> <<>>]

\* {s.step_order for s in workflow.steps}
existing_orders(steps) == {steps[i].step_order : i \in 1..Len(steps)}

\* sorted(s.step_order for s in workflow.steps), duplicates kept.
RECURSIVE sorted_orders(_)
sorted_orders(steps) ==
    IF steps = <<>> THEN <<>>
    ELSE LET i == CHOOSE i \in 1..Len(steps) :
                      \A j \in 1..Len(steps) : steps[i].step_order <= steps[j].step_order
             rest == [k \in 1..(Len(steps) - 1) |-> IF k < i THEN steps[k] ELSE steps[k + 1]]
         IN <<steps[i].step_order>> \o sorted_orders(rest)

\* Mutant of is_sequential: any non-empty list of steps passes.
is_sequential_any(steps) == TRUE

\* activate_workflow: step_orders == list(range(step_orders[0], step_orders[0] + n)).
is_sequential(steps) ==
    LET step_orders == sorted_orders(steps)
    IN \A i \in 1..Len(step_orders) : step_orders[i] = step_orders[1] + (i - 1)

\* The store refuses a second row with a step_order the workflow already has.
step_order_violation(step_order) == step_order \in existing_orders(step_rows)

\* The values add_step is given for timeout_seconds and max_retries.
TimeoutValues == {0, DEFAULT_TIMEOUT_SECONDS}
MaxRetriesValues == {0, 1, DEFAULT_STEP_MAX_RETRIES}

\* The CHECK constraints of the workflow_steps table, whose schema is not in
\* the sources: a row with such a value may be refused by the store.
step_check_violation(step) == step.timeout_seconds <= 0 \/ step.max_retries < 1

\* add_step -> get_workflow: SELECT of the workflows row.
AddStepLoadRow(a, step_order, timeout_seconds, max_retries) ==
    /\ apc[a] = "idle"
    /\ add_calls < MaxAddCalls
    /\ add_calls' = add_calls + 1
    /\ alocal' = [alocal EXCEPT ![a] = [step_order |-> step_order,
                                          timeout_seconds |-> timeout_seconds,
                                          max_retries |-> max_retries,
                                          status |-> workflow_status, steps |-> <<>>]]
    /\ apc' = [apc EXCEPT ![a] = "steps"]
    /\ UNCHANGED <<base_vars, sm_vars, order_vars, cancel_vars, wresult, name_vars, step_rows, vpc, vlocal, cycle_vars>>

\* add_step -> get_workflow: SELECT of the workflow's steps, then the checks
\* of add_step; a WorkflowValidationError ends the call.
AddStepLoadSteps(a) ==
    /\ apc[a] = "steps"
    /\ alocal' = [alocal EXCEPT ![a].steps = step_rows]
    /\ apc' = [apc EXCEPT ![a] =
                  IF \/ alocal[a].status # "draft"
                     \/ alocal[a].step_order < 0
                     \/ alocal[a].step_order \in existing_orders(step_rows)
                  THEN "idle" ELSE "insert"]
    /\ UNCHANGED <<base_vars, sm_vars, order_vars, cancel_vars, wresult, name_vars, step_rows, add_calls, vpc, vlocal, cycle_vars>>

\* Mutant of new_step: the step add_step builds always has the default
\* timeout_seconds and max_retries.
new_step_defaults(local) ==
    WorkflowStep_create(local.step_order, DEFAULT_STEP_MAX_RETRIES)

\* add_step: WorkflowStep.create with the caller's timeout_seconds and
\* max_retries.
new_step(local) ==
    [WorkflowStep_create(local.step_order, local.max_retries)
        EXCEPT !.timeout_seconds = local.timeout_seconds]

\* add_step: WorkflowStep.create and the INSERT. Whether the store has a
\* unique constraint on (workflow_id, step_order), or CHECK constraints on
\* timeout_seconds and max_retries, is not in the sources: a row violating
\* one is inserted, or refused.
AddStepInsert(a) ==
    /\ apc[a] = "insert"
    /\ \/ step_rows' = Append(step_rows, new_step(alocal[a]))
       \/ /\ step_order_violation(alocal[a].step_order)
          /\ UNCHANGED step_rows
       \/ /\ step_check_violation(new_step(alocal[a]))
          /\ UNCHANGED step_rows
    /\ apc' = [apc EXCEPT ![a] = "idle"]
    /\ UNCHANGED <<base_vars, sm_vars, order_vars, cancel_vars, wresult, name_vars, alocal, add_calls, vpc, vlocal, cycle_vars>>

\* activate_workflow -> get_workflow: SELECT of the workflows row.
ActivateLoadRow(v) ==
    /\ vpc[v] = "idle"
    /\ vlocal' = [vlocal EXCEPT ![v] = [step_order |-> 0, status |-> workflow_status,
                                          steps |-> <<>>]]
    /\ vpc' = [vpc EXCEPT ![v] = "steps"]
    /\ UNCHANGED <<base_vars, sm_vars, order_vars, cancel_vars, wresult, name_vars, step_rows, apc, alocal, add_calls, cycle_vars>>

\* activate_workflow -> get_workflow: SELECT of the steps, then the checks.
ActivateLoadSteps(v) ==
    /\ vpc[v] = "steps"
    /\ vlocal' = [vlocal EXCEPT ![v].steps = step_rows]
    /\ vpc' = [vpc EXCEPT ![v] =
                  IF \/ vlocal[v].status # "draft"
                     \/ step_rows = <<>>
                     \/ ~is_sequential(step_rows)
                  THEN "idle" ELSE "update"]
    /\ UNCHANGED <<base_vars, sm_vars, order_vars, cancel_vars, wresult, name_vars, step_rows, apc, alocal, add_calls, cycle_vars>>

\* activate_workflow: update_workflow_status(ACTIVE), one UPDATE by id.
ActivateUpdate(v) ==
    /\ vpc[v] = "update"
    /\ workflow_status' = "active"
    /\ vpc' = [vpc EXCEPT ![v] = "idle"]
    /\ UNCHANGED <<store_vars, queue_vars, worker_vars, api_vars, xpc, xkey, xresult, xstatus, xlogs,
                   sweep_vars, enqueue_vars, open, sm_vars, order_vars, cancel_vars, wresult,
                   step_rows, apc, alocal, add_calls, vlocal, name_vars, cycle_vars, xanswer>>

\* ------------------- WorkflowService.deprecate_workflow / archive_workflow
Deprecators == {"d1"}
Archivers == {"h1"}

\* deprecate_workflow: workflow.status in (ACTIVE, DRAFT).
may_deprecate(status) == status \in {"active", "draft"}

\* deprecate_workflow -> get_workflow, then the status check; a
\* WorkflowValidationError ends the call.
DeprecateLoad(d) ==
    /\ dpc[d] = "idle"
    /\ dlocal' = [dlocal EXCEPT ![d] = workflow_status]
    /\ IF may_deprecate(workflow_status)
       THEN /\ dpc' = [dpc EXCEPT ![d] = "update"]
            /\ UNCHANGED dresult
       ELSE /\ dresult' = [dresult EXCEPT ![d] = IF workflow_status = NULL
                                                   THEN "not_found" ELSE "validation_error"]
            /\ UNCHANGED dpc
    /\ UNCHANGED <<base_vars, sm_vars, order_vars, cancel_vars, wresult, name_vars,
                   step_rows, apc, alocal, add_calls, vpc, vlocal, hpc>>

\* deprecate_workflow: update_workflow_status(DEPRECATED), one UPDATE by id.
DeprecateUpdate(d) ==
    /\ dpc[d] = "update"
    /\ workflow_status' = "deprecated"
    /\ dpc' = [dpc EXCEPT ![d] = "idle"]
    /\ dresult' = [dresult EXCEPT ![d] = "deprecated"]
    /\ UNCHANGED <<store_vars, queue_vars, worker_vars, api_vars, xpc, xkey, xresult, xstatus, xlogs,
                   sweep_vars, enqueue_vars, open, sm_vars, order_vars, cancel_vars, wresult,
                   step_rows, apc, alocal, add_calls, vpc, vlocal, name_vars, dlocal, hpc, xanswer>>

\* archive_workflow -> get_workflow, which raises WorkflowNotFoundError for a
\* missing workflow; no check of the status follows.
ArchiveLoad(h) ==
    /\ hpc[h] = "idle"
    /\ hpc' = [hpc EXCEPT ![h] = IF workflow_status = NULL THEN "idle" ELSE "update"]
    /\ UNCHANGED <<base_vars, sm_vars, order_vars, cancel_vars, wresult, name_vars,
                   step_rows, apc, alocal, add_calls, vpc, vlocal, dpc, dlocal, dresult>>

\* archive_workflow: update_workflow_status(ARCHIVED), one UPDATE by id.
ArchiveUpdate(h) ==
    /\ hpc[h] = "update"
    /\ workflow_status' = "archived"
    /\ hpc' = [hpc EXCEPT ![h] = "idle"]
    /\ UNCHANGED <<store_vars, queue_vars, worker_vars, api_vars, xpc, xkey, xresult, xstatus, xlogs,
                   sweep_vars, enqueue_vars, open, sm_vars, order_vars, cancel_vars, wresult,
                   step_rows, apc, alocal, add_calls, vpc, vlocal, name_vars, dpc, dlocal,
                   dresult, xanswer>>

\* ---------------------------------------- WorkflowService.create_workflow
NameCallers == {"n1", "n2"}

\* A name is the sequence of its characters.
WorkflowNames == {<<>>, <<" ">>, <<"a">>, <<" ", "a">>, <<"a", " ">>, <<"b">>}

RECURSIVE lstrip(_)
lstrip(name) ==
    IF name # <<>> /\ Head(name) = " " THEN lstrip(Tail(name)) ELSE name

RECURSIVE rstrip(_)
rstrip(name) ==
    IF name # <<>> /\ name[Len(name)] = " "
    THEN rstrip(SubSeq(name, 1, Len(name) - 1)) ELSE name

\* str.strip()
strip(name) == rstrip(lstrip(name))

\* Workflow.create: a DRAFT workflow of the given name.
Workflow_create(name) == [name |-> name, status |-> "draft"]

\* Mutant of get_workflow_by_name: the rows whose name is the trimmed argument.
get_workflow_by_trimmed_name(name) ==
    {i \in 1..Len(workflows) : workflows[i].name = strip(name)}

\* get_workflow_by_name: SELECT ... WHERE name = %s.
get_workflow_by_name(name) == {i \in 1..Len(workflows) : workflows[i].name = name}

\* The store refuses a second workflows row with the same name.
name_violation(name) == \E i \in 1..Len(workflows) : workflows[i].name = name

\* create_workflow up to the INSERT: the check of the name and the lookup of
\* a workflow with the name as given; a WorkflowValidationError ends the call.
CreateWorkflowCheck(k, name) ==
    /\ kpc[k] = "idle"
    /\ name_calls < MaxNameCalls
    /\ name_calls' = name_calls + 1
    /\ kname' = [kname EXCEPT ![k] = name]
    /\ IF name = <<>> \/ strip(name) = <<>> \/ get_workflow_by_name(name) # {}
       THEN /\ kresult' = [kresult EXCEPT ![k] = "WorkflowValidationError"]
            /\ UNCHANGED kpc
       ELSE /\ kresult' = [kresult EXCEPT ![k] = "none"]
            /\ kpc' = [kpc EXCEPT ![k] = "insert"]
    /\ UNCHANGED <<base_vars, sm_vars, order_vars, cancel_vars, wresult, step_rows, apc, alocal,
                   add_calls, vpc, vlocal, workflows, cycle_vars>>

\* create_workflow: Workflow.create(name.strip()) and the INSERT. Whether the
\* store has a unique constraint on the name is not in the sources: a second
\* row with the name is inserted, or refused with the driver's error.
CreateWorkflowInsert(k) ==
    /\ kpc[k] = "insert"
    /\ \/ /\ workflows' = Append(workflows, Workflow_create(strip(kname[k])))
          /\ kresult' = [kresult EXCEPT ![k] = "Workflow"]
       \/ /\ name_violation(strip(kname[k]))
          /\ kresult' = [kresult EXCEPT ![k] = "IntegrityError"]
          /\ UNCHANGED workflows
    /\ kpc' = [kpc EXCEPT ![k] = "idle"]
    /\ UNCHANGED <<base_vars, sm_vars, order_vars, cancel_vars, wresult, step_rows, apc, alocal,
                   add_calls, vpc, vlocal, kname, name_calls, cycle_vars>>

\* ----------------------------------------------------------- specification
\* An active workflow with steps 0..NumSteps-1 and one execution of it.
InitStore ==
    /\ \E mr \in 1..MaxStepRetries :
          workflow_steps = [o \in 0..(NumSteps - 1) |->
                               WorkflowStep_create(o, mr)]
    /\ \E mr \in 0..MaxExecRetries :
          executions = (E1 :> WorkflowExecution_create(W1, "k1", mr))
    /\ step_executions = <<>>

\* The same with the largest retry budgets.
InitStoreFixed ==
    /\ workflow_steps = [o \in 0..(NumSteps - 1) |->
                             WorkflowStep_create(o, MaxStepRetries)]
    /\ executions = (E1 :> WorkflowExecution_create(W1, "k1", MaxExecRetries))
    /\ step_executions = <<>>

\* Q holds the given messages, nothing is in flight.
InitQueue(messages) ==
    /\ queue = messages
    /\ processing = <<>>
    /\ ttl_keys = {}
    /\ dlq = <<>>
    /\ msgs_created = Len(messages)
    /\ deliveries = 0

\* Every process is at the given position; Worker.__init__ leaves _running
\* as given and the shutdown event clear.
InitProcessesAt(position, flag) ==
    /\ wpc = [w \in Workers |-> position]
    /\ wmsg = [w \in Workers |-> NoMsg]
    /\ wexec = [w \in Workers |-> NoExec]
    /\ wsteps = [w \in Workers |-> <<>>]
    /\ wattempt = [w \in Workers |-> 0]
    /\ wrec = [w \in Workers |-> 0]
    /\ winvoked = [w \in Workers |-> <<>>]
    /\ crashes = 0
    /\ open = [w \in Workers |-> FALSE]
    /\ rpc = [r \in RetryCallers |-> "idle"]
    /\ rexec = [r \in RetryCallers |-> NoExec]
    /\ retry_calls = 0
    /\ cpc = [c \in CancelCallers |-> "idle"]
    /\ cancel_calls = 0
    /\ xpc = [x \in CreateCallers |-> "idle"]
    /\ xkey = [x \in CreateCallers |-> "k1"]
    /\ xresult = [x \in CreateCallers |-> NoResult]
    /\ xstatus = [x \in CreateCallers |-> NULL]
    /\ xlogs = {}
    /\ xanswer = [x \in CreateCallers |-> NoAnswer]
    /\ spc = [s \in Sweepers |-> position]
    /\ smessages = [s \in Sweepers |-> <<>>]
    /\ released = {}
    /\ pushed = <<>>
    /\ popped = <<>>
    /\ requeued = {}
    /\ srecovered = [s \in Sweepers |-> 0]
    /\ sremoved = [s \in Sweepers |-> 0]
    /\ wready = [w \in Workers |-> <<>>]
    /\ due = [id \in {} |-> 0]
    /\ running = [w \in Workers |-> flag]
    /\ shutdown_event = [w \in Workers |-> FALSE]
    /\ stops = 0
    /\ ppc = [p \in Producers |-> "idle"]
    /\ pcall = [p \in Producers |-> NoCall]
    /\ presult = [p \in Producers |-> "none"]
    /\ pexisted = [p \in Producers |-> FALSE]
    /\ enq_calls = 0

\* Every process is at rest; the workers are in their main loop.
InitProcesses == InitProcessesAt("idle", TRUE)

\* A caller of the state machine that starts from one of the given statuses.
InitStateMachine(starts) ==
    /\ sm_path \in {<<s>> : s \in starts}
    /\ sm_to = NULL
    /\ sm_outcome = "none"
    /\ bfs = NoQuery

\* No idempotency key exists, Q:delayed is empty.
InitEnqueue ==
    /\ now = 0
    /\ idem = [k \in RealKeys |-> NoKey]
    /\ delayed = {}
    /\ life = [k \in RealKeys |-> 0]
    /\ adds = [k \in RealKeys |-> [l \in 1..MaxEnqueues |-> 0]]

\* The workflow being built has steps of the given orders; no add_step or
\* activate_workflow call is under way.
InitBuild(orders) ==
    /\ step_rows = [i \in 1..Cardinality(orders) |->
                       WorkflowStep_create(SortedOrders(orders)[i], DEFAULT_STEP_MAX_RETRIES)]
    /\ apc = [a \in Adders |-> "idle"]
    /\ alocal = [a \in Adders |-> NoWorkflow]
    /\ add_calls = 0
    /\ vpc = [v \in Activators |-> "idle"]
    /\ vlocal = [v \in Activators |-> NoWorkflow]
    /\ workflows = <<>>
    /\ kpc = [k \in NameCallers |-> "idle"]
    /\ kname = [k \in NameCallers |-> <<>>]
    /\ kresult = [k \in NameCallers |-> "none"]
    /\ name_calls = 0
    /\ dpc = [d \in Deprecators |-> "idle"]
    /\ dlocal = [d \in Deprecators |-> NULL]
    /\ dresult = [d \in Deprecators |-> "none"]
    /\ hpc = [h \in Archivers |-> "idle"]

\* No worker has handled a message, no cancel_execution call was made; the
\* handlers of the given steps of e1 have returned before.
InitHandling(done) ==
    /\ cexec = [c \in CancelCallers |-> NULL]
    /\ wcancel = [w \in Workers |-> FALSE]
    /\ wresult = [w \in Workers |-> NoOutcome]
    /\ succeeded = done
    /\ wdone = [w \in Workers |-> {}]
    /\ outputs = [e \in {} |-> NoOutput]
    /\ wslept = [w \in Workers |-> NoSleep]

\* The parts of the state a specification leaves at rest.
InitRest ==
    /\ InitStateMachine({"pending"})
    /\ InitHandling({})
    /\ InitBuild({0, 1})

\* The state after the trigger route created execution e1 (pending) and
\* enqueued its message.
Init ==
    /\ InitStore
    /\ workflow_status = "active"
    /\ InitQueue(<<to_json(QueueMessage_create(E1, 1))>>)
    /\ InitProcesses
    /\ InitEnqueue
    /\ InitRest

\* What one worker does next.
WorkerStep(w) ==
    \/ Dequeue(w)
    \/ ExecuteLoad(w)
    \/ StartLoad(w)
    \/ StartWrite(w)
    \/ BeginStep(w)
    \/ AttemptStart(w)
    \/ HandlerReturns(w)
    \/ HandlerRaises(w)
    \/ Checkpoint(w)
    \/ FailLoad(w)
    \/ FailWrite(w)
    \/ CompleteLoad(w)
    \/ CompleteWrite(w)
    \/ SetOutput(w)
    \/ Acknowledge(w)
    \/ Reject(w)

\* Competing workers, worker kills, visibility timeouts and the recovery sweep.
Next ==
    \/ \E w \in Workers : WorkerStep(w)
    \/ \E w \in Workers : Crash(w)
    \/ \E id \in ttl_keys : ExpireKey(id)
    \/ RecoverStale

Spec == Init /\ [][Next]_vars

\* One worker and the callers of retry_execution and cancel_execution.
ApiNext ==
    \/ WorkerStep("w1")
    \/ \E r \in RetryCallers : RetryLoad(r)
    \/ \E r \in RetryCallers : RetryIncrement(r)
    \/ \E r \in RetryCallers : RetryTransitionLoad(r)
    \/ \E r \in RetryCallers : RetryWrite(r)
    \/ \E r \in RetryCallers : RetryEnqueue(r)
    \/ \E c \in CancelCallers : CancelLoad(c)
    \/ \E c \in CancelCallers : CancelTransitionLoad(c)
    \/ \E c \in CancelCallers : CancelWrite(c)

ApiSpec == Init /\ [][ApiNext]_vars

\* The same while time passes.
TimedNext == ApiNext \/ Tick

TimedSpec == Init /\ [][TimedNext]_vars

\* ------------------------------------------------ one worker, any dispatch
\* The (status, current_step_order) pairs a stored execution can have when one
\* of its messages is dequeued: 0 at birth, step_order + 1 after a checkpoint.
DispatchStates(orders) ==
    LET checkpoints == {0} \cup {o + 1 : o \in orders}
        last == CHOOSE o \in orders : \A q \in orders : q <= o
    IN {<<"pending", 0>>, <<"completed", last + 1>>}
       \cup ({"running", "retrying", "failed", "cancelled"} \X checkpoints)

\* The row of such an execution, with the columns the statements that led to
\* the status have written.
StoredExecution(status, current_step_order) ==
    [WorkflowExecution_create(W1, "k1", MaxExecRetries) EXCEPT
        !.status = status,
        !.current_step_order = current_step_order,
        !.retry_count = IF status = "retrying" THEN 1 ELSE 0,
        !.error_message = IF status \in {"failed", "retrying"}
                          THEN <<"Unexpected error: ", "earlier">> ELSE <<>>,
        !.output_data = IF status = "completed" THEN "set" ELSE NULL,
        !.started_at = IF status = "pending" \/ (status = "cancelled" /\ current_step_order = 0)
                       THEN <<>> ELSE <<0>>,
        !.completed_at = IF status \in {"completed", "failed", "cancelled", "retrying"}
                         THEN <<0>> ELSE <<>>]

\* An active workflow whose step orders start at 0 or above, one execution of
\* it in any dispatchable state, and one message for it in Q, fresh or on its
\* last attempt.
SoloInit ==
    /\ \E first \in 0..MaxFirstOrder, mr \in 0..MaxStepRetries :
          workflow_steps = [o \in first..(first + NumSteps - 1) |->
                               WorkflowStep_create(o, mr)]
    /\ \E d \in DispatchStates(DOMAIN workflow_steps) :
          executions = (E1 :> StoredExecution(d[1], d[2]))
    /\ step_executions = <<>>
    /\ workflow_status = "active"
    /\ \E attempt \in {1, MAX_RETRIES} :
          InitQueue(<<to_json([QueueMessage_create(E1, 1) EXCEPT !.attempt = attempt])>>)
    /\ InitProcesses
    /\ InitEnqueue
    /\ InitStateMachine({"pending"})
    /\ InitHandling({o \in DOMAIN workflow_steps : o < executions[E1].current_step_order})
    /\ InitBuild({0, 1})

SoloNext == WorkerStep("w1")

SoloSpec == SoloInit /\ [][SoloNext]_vars

\* The same worker when it can be killed, with the visibility timeout and
\* the recovery sweep.
StrandNext ==
    \/ WorkerStep("w1")
    \/ Crash("w1")
    \/ \E id \in ttl_keys : ExpireKey(id)
    \/ RecoverStale

StrandSpec == SoloInit /\ [][StrandNext]_vars

\* --------------------------------------------- one worker, one long step
\* A workflow of one step with a small, the default or a large max_retries,
\* one pending execution of it and its message in Q.
BackoffInit ==
    /\ \E mr \in {1, DEFAULT_STEP_MAX_RETRIES, LargeMaxRetries} :
          workflow_steps = [o \in {0} |-> WorkflowStep_create(o, mr)]
    /\ executions = (E1 :> WorkflowExecution_create(W1, "k1", MaxExecRetries))
    /\ step_executions = <<>>
    /\ workflow_status = "active"
    /\ InitQueue(<<to_json(QueueMessage_create(E1, 1))>>)
    /\ InitProcesses
    /\ InitEnqueue
    /\ InitRest

BackoffNext == WorkerStep("w1")

BackoffSpec == BackoffInit /\ [][BackoffNext]_vars

\* A draft workflow without steps, callers of add_step and a caller of
\* activate_workflow.
WorkflowInit ==
    /\ InitStoreFixed
    /\ workflow_status = "draft"
    /\ InitQueue(<<>>)
    /\ InitProcesses
    /\ InitEnqueue
    /\ InitStateMachine({"pending"})
    /\ InitHandling({})
    /\ InitBuild({})

WorkflowNext ==
    \/ \E a \in Adders, step_order \in StepOrders :
          AddStepLoadRow(a, step_order, DEFAULT_TIMEOUT_SECONDS, DEFAULT_STEP_MAX_RETRIES)
    \/ \E a \in Adders : AddStepLoadSteps(a)
    \/ \E a \in Adders : AddStepInsert(a)
    \/ \E v \in Activators : ActivateLoadRow(v)
    \/ \E v \in Activators : ActivateLoadSteps(v)
    \/ \E v \in Activators : ActivateUpdate(v)

WorkflowSpec == WorkflowInit /\ [][WorkflowNext]_vars

\* The calls that change a workflow's status, and add_step calls of one caller.
LifecycleNext ==
    \/ \E step_order \in StepOrders :
          AddStepLoadRow("a1", step_order, DEFAULT_TIMEOUT_SECONDS, DEFAULT_STEP_MAX_RETRIES)
    \/ AddStepLoadSteps("a1")
    \/ AddStepInsert("a1")
    \/ \E v \in Activators : ActivateLoadRow(v)
    \/ \E v \in Activators : ActivateLoadSteps(v)
    \/ \E v \in Activators : ActivateUpdate(v)
    \/ \E d \in Deprecators : DeprecateLoad(d)
    \/ \E d \in Deprecators : DeprecateUpdate(d)
    \/ \E h \in Archivers : ArchiveLoad(h)
    \/ \E h \in Archivers : ArchiveUpdate(h)

LifecycleSpec == WorkflowInit /\ [][LifecycleNext]_vars

\* add_step calls of one caller, with any timeout_seconds and max_retries.
StepNext ==
    \/ \E step_order \in StepOrders, timeout_seconds \in TimeoutValues,
            max_retries \in MaxRetriesValues :
          AddStepLoadRow("a1", step_order, timeout_seconds, max_retries)
    \/ AddStepLoadSteps("a1")
    \/ AddStepInsert("a1")

StepSpec == WorkflowInit /\ [][StepNext]_vars

\* Callers of create_workflow, no workflow yet.
NameInit ==
    /\ InitStoreFixed
    /\ workflow_status = "active"
    /\ InitQueue(<<>>)
    /\ InitProcesses
    /\ InitEnqueue
    /\ InitRest

NameNext ==
    \/ \E k \in NameCallers, name \in WorkflowNames : CreateWorkflowCheck(k, name)
    \/ \E k \in NameCallers : CreateWorkflowInsert(k)

NameSpec == NameInit /\ [][NameNext]_vars

\* The queue alone: Q holds a fresh message and one on its third attempt;
\* workers, kills, visibility timeouts and sweepers, one Redis command a step.
QueueInit ==
    /\ InitStoreFixed
    /\ workflow_status = "active"
    /\ InitQueue(<<to_json([QueueMessage_create(E1, 2) EXCEPT !.attempt = MAX_RETRIES]),
                   to_json(QueueMessage_create(E1, 1))>>)
    /\ InitProcesses
    /\ InitEnqueue
    /\ InitRest

QueueNext ==
    \/ \E w \in Workers : Pop(w)
    \/ \E w \in Workers : Setex(w)
    \/ \E w \in Workers : ExecuteReturns(w)
    \/ \E w \in Workers : ExecuteRaises(w)
    \/ \E w \in Workers : Lrem(w)
    \/ \E w \in Workers : Del(w)
    \/ \E w \in Workers : RejectPush(w)
    \/ \E w \in Workers : Kill(w)
    \/ \E id \in ttl_keys : ExpireKey(id)
    \/ \E s \in Sweepers : SweepRange(s)
    \/ \E s \in Sweepers : SweepExists(s)
    \/ \E s \in Sweepers : SweepLrem(s)
    \/ \E s \in Sweepers : SweepPush(s)

QueueSpec == QueueInit /\ [][QueueNext]_vars

\* The recovery loop keeps running and every visibility key runs out.
QueueFairness ==
    /\ \A s \in Sweepers :
          /\ WF_vars(SweepRange(s))
          /\ WF_vars(SweepExists(s))
          /\ WF_vars(SweepLrem(s))
          /\ WF_vars(SweepPush(s))
    /\ \A id \in MessageIds : WF_vars(ExpireKey(id))

QueueFairSpec == QueueSpec /\ QueueFairness

\* One message on its first attempt, one worker that keeps processing, one
\* recovery loop; the worker can be killed and restarted.
RedeliverNext ==
    \/ BrpoplpushWithin("w1", "idle", MaxRedeliveries)
    \/ Setex("w1")
    \/ ExecuteReturns("w1")
    \/ ExecuteRaises("w1")
    \/ Lrem("w1")
    \/ Del("w1")
    \/ RejectPush("w1")
    \/ Kill("w1")
    \/ \E id \in ttl_keys : ExpireKey(id)
    \/ \E s \in Sweepers : SweepRange(s)
    \/ \E s \in Sweepers : SweepExists(s)
    \/ \E s \in Sweepers : SweepLrem(s)
    \/ \E s \in Sweepers : SweepPush(s)

RedeliverSpec == Init /\ [][RedeliverNext]_vars

\* The worker's main loop and its recovery loop keep running, and every
\* visibility key runs out.
RedeliverFairness ==
    /\ QueueFairness
    /\ WF_vars(BrpoplpushWithin("w1", "idle", MaxRedeliveries))
    /\ WF_vars(Setex("w1"))
    /\ WF_vars(ExecuteReturns("w1") \/ ExecuteRaises("w1"))
    /\ WF_vars(Lrem("w1"))
    /\ WF_vars(Del("w1"))
    /\ WF_vars(RejectPush("w1"))

RedeliverFairSpec == RedeliverSpec /\ RedeliverFairness

\* ------------------------------------------------ Worker.start and stop
\* The worker whose recovery thread the sweeper is.
WorkerOf(s) == "w1"

\* What the steps of start, stop and the two loops leave alone.
LoopFrame ==
    UNCHANGED <<ext_vars, create_vars, enqueue_vars, open, store_vars, queue_vars, api_vars,
                wmsg, wexec, wsteps, wattempt, wrec, winvoked, crashes, smessages,
                released, fifo_vars, srecovered, sremoved, wready, due>>

\* start: _running = True, the signal handlers, the recovery thread.
Start(w) ==
    /\ wpc[w] = "new"
    /\ running' = [running EXCEPT ![w] = TRUE]
    /\ wpc' = [wpc EXCEPT ![w] = "idle"]
    /\ spc' = [s \in Sweepers |-> IF WorkerOf(s) = w THEN "idle" ELSE spc[s]]
    /\ UNCHANGED <<shutdown_event, stops>>
    /\ LoopFrame

\* stop, called by the signal handler or by another thread of a started
\* worker: _running = False, _shutdown_event.set().
Stop(w) ==
    /\ wpc[w] # "new"
    /\ stops < MaxStops
    /\ stops' = stops + 1
    /\ running' = [running EXCEPT ![w] = FALSE]
    /\ shutdown_event' = [shutdown_event EXCEPT ![w] = TRUE]
    /\ UNCHANGED <<wpc, spc>>
    /\ LoopFrame

\* Mutant of loop_continues: a main loop that ignores the flag.
loop_continues_always(flag) == TRUE

\* start: while self._running.
loop_continues(flag) == flag

\* start: the test of the main loop; _process_one is called, or the loop
\* ends and start returns.
LoopTest(w) ==
    /\ wpc[w] = "idle"
    /\ wpc' = [wpc EXCEPT ![w] = IF loop_continues(running[w]) THEN "called" ELSE "stopped"]
    /\ UNCHANGED <<spc, loop_vars>>
    /\ LoopFrame

\* _recovery_loop: _shutdown_event.wait(60) times out with the event clear.
RecoveryWake(s) ==
    /\ spc[s] = "idle"
    /\ ~shutdown_event[WorkerOf(s)]
    /\ spc' = [spc EXCEPT ![s] = "woke"]
    /\ UNCHANGED <<wpc, loop_vars>>
    /\ LoopFrame

\* _recovery_loop: recover_stale_messages reads an empty Q:processing.
RecoveryNothing(s) ==
    /\ spc[s] = "woke"
    /\ processing = <<>>
    /\ spc' = [spc EXCEPT ![s] = "idle"]
    /\ UNCHANGED <<wpc, loop_vars>>
    /\ LoopFrame

\* _recovery_loop: _shutdown_event.wait returns True, the loop ends.
RecoveryExit(s) ==
    /\ spc[s] = "idle"
    /\ shutdown_event[WorkerOf(s)]
    /\ spc' = [spc EXCEPT ![s] = "exited"]
    /\ UNCHANGED <<wpc, loop_vars>>
    /\ LoopFrame

\* A worker just constructed, and in Q a message on its last attempt but one.
ShutdownInit ==
    /\ InitStoreFixed
    /\ workflow_status = "active"
    /\ InitQueue(<<to_json([QueueMessage_create(E1, 1) EXCEPT !.attempt = MAX_RETRIES - 1])>>)
    /\ InitProcessesAt("new", FALSE)
    /\ InitEnqueue
    /\ InitRest

\* Worker w1 from start on: its main loop, one Redis command a step, its
\* recovery thread, and stop calls at any moment.
ShutdownNext ==
    \/ Start("w1")
    \/ Stop("w1")
    \/ LoopTest("w1")
    \/ DequeueRangeAt("w1", "called")
    \/ DequeueNone("w1")
    \/ BrpoplpushWithin("w1", "pop", MaxRedeliveries)
    \/ Setex("w1")
    \/ ExecuteReturns("w1")
    \/ ExecuteRaises("w1")
    \/ Lrem("w1")
    \/ Del("w1")
    \/ RejectPush("w1")
    \/ \E id \in ttl_keys : ExpireKey(id)
    \/ \E s \in Sweepers : RecoveryWake(s)
    \/ \E s \in Sweepers : RecoveryNothing(s)
    \/ \E s \in Sweepers : RecoveryExit(s)
    \/ \E s \in Sweepers : SweepRangeAt(s, "woke")
    \/ \E s \in Sweepers : SweepExists(s)
    \/ \E s \in Sweepers : SweepLrem(s)
    \/ \E s \in Sweepers : SweepPush(s)

\* Both threads keep running: every call made returns, orchestrator.execute
\* included, and the wait of the recovery loop ends.
ShutdownFairness ==
    /\ WF_vars(LoopTest("w1"))
    /\ WF_vars(DequeueRangeAt("w1", "called"))
    /\ WF_vars(DequeueNone("w1") \/ BrpoplpushWithin("w1", "pop", MaxRedeliveries))
    /\ WF_vars(Setex("w1"))
    /\ WF_vars(ExecuteReturns("w1") \/ ExecuteRaises("w1"))
    /\ WF_vars(Lrem("w1"))
    /\ WF_vars(Del("w1"))
    /\ WF_vars(RejectPush("w1"))
    /\ \A s \in Sweepers :
          /\ WF_vars(RecoveryExit(s))
          /\ WF_vars(RecoveryNothing(s) \/ SweepRangeAt(s, "woke"))
          /\ WF_vars(SweepExists(s))
          /\ WF_vars(SweepLrem(s))
          /\ WF_vars(SweepPush(s))

ShutdownSpec == ShutdownInit /\ [][ShutdownNext]_vars /\ ShutdownFairness

\* Producers calling enqueue while time passes.
EnqueueInit ==
    /\ InitStoreFixed
    /\ workflow_status = "active"
    /\ InitQueue(<<>>)
    /\ InitProcesses
    /\ InitEnqueue
    /\ InitRest

EnqueueNext ==
    \/ \E p \in Producers, k \in IdemKeys, d \in Delays : EnqueueSetnx(p, k, d)
    \/ \E p \in Producers : EnqueueExpire(p)
    \/ \E p \in Producers : EnqueuePush(p)
    \/ MoveReadyDelayed
    \/ Tick

EnqueueSpec == EnqueueInit /\ [][EnqueueNext]_vars

\* The delay_seconds given to enqueue: none, a short one, and one that ends
\* exactly on a step of the clock.
DelayedDelays == {0, DelaySeconds, TickSeconds}

\* A producer enqueuing with and without delay, workers whose dequeue first
\* promotes the ready members of Q:delayed; each worker keeps the message it got.
DelayNext ==
    \/ \E d \in DelayedDelays : EnqueueSetnx("p1", "", d)
    \/ EnqueuePush("p1")
    \/ Tick
    \/ \E w \in Workers : DequeueRange(w)
    \/ \E w \in Workers : DequeuePipe(w)
    \/ \E w \in Workers : DequeueNone(w)
    \/ \E w \in Workers : Brpoplpush(w, "pop")
    \/ \E w \in Workers : Setex(w)

DelaySpec == EnqueueInit /\ [][DelayNext]_vars

\* A producer without idempotency keys, competing workers whose handling ends
\* either way, visibility timeouts and a sweeper, one Redis command a step.
FifoNext ==
    \/ EnqueueSetnx("p1", "", 0)
    \/ EnqueuePush("p1")
    \/ \E w \in Workers : Pop(w)
    \/ \E w \in Workers : Setex(w)
    \/ \E w \in Workers : ExecuteReturns(w)
    \/ \E w \in Workers : ExecuteRaises(w)
    \/ \E w \in Workers : Lrem(w)
    \/ \E w \in Workers : Del(w)
    \/ \E w \in Workers : RejectPush(w)
    \/ \E id \in ttl_keys : ExpireKey(id)
    \/ \E s \in Sweepers : SweepRange(s)
    \/ \E s \in Sweepers : SweepExists(s)
    \/ \E s \in Sweepers : SweepLrem(s)
    \/ \E s \in Sweepers : SweepPush(s)

FifoSpec == EnqueueInit /\ [][FifoNext]_vars

\* Callers of create_execution on workflow W1, no execution yet.
CreateInit ==
    /\ workflow_steps = [o \in 0..(NumSteps - 1) |->
                             WorkflowStep_create(o, MaxStepRetries)]
    /\ executions = [e \in {} |-> NoExec]
    /\ step_executions = <<>>
    /\ workflow_status \in {"active", "draft"}
    /\ InitQueue(<<>>)
    /\ InitProcesses
    /\ InitEnqueue
    /\ InitRest

CreateNext ==
    \/ \E x \in CreateCallers, k \in ExecutionKeys : CreateCheckWorkflow(x, k)
    \/ \E x \in CreateCallers : CreateLookup(x)
    \/ \E x \in CreateCallers : CreateInsert(x)
    \/ \E x \in CreateCallers : CreateLog(x)

CreateSpec == CreateInit /\ [][CreateNext]_vars

\* POSTs of one (workflow_id, idempotency_key) pair on the active workflow W1,
\* no execution yet.
TriggerInit ==
    /\ workflow_steps = [o \in 0..(NumSteps - 1) |->
                             WorkflowStep_create(o, MaxStepRetries)]
    /\ executions = [e \in {} |-> NoExec]
    /\ step_executions = <<>>
    /\ workflow_status = "active"
    /\ InitQueue(<<>>)
    /\ InitProcesses
    /\ InitEnqueue
    /\ InitRest

TriggerNext ==
    \/ \E x \in CreateCallers : CreateCheckWorkflow(x, "k1")
    \/ \E x \in CreateCallers : CreateLookup(x)
    \/ \E x \in CreateCallers : CreateInsert(x)
    \/ \E x \in CreateCallers : CreateLog(x)
    \/ \E x \in CreateCallers : TriggerCatch(x)
    \/ \E x \in CreateCallers : TriggerSetnx(x)
    \/ \E x \in CreateCallers : TriggerExpire(x)
    \/ \E x \in CreateCallers : TriggerPush(x)

TriggerSpec == TriggerInit /\ [][TriggerNext]_vars

\* Callers of create_execution on a workflow that is missing or has any
\* status, while deprecate_workflow and archive_workflow calls are made.
BirthInit ==
    /\ workflow_steps = [o \in 0..(NumSteps - 1) |->
                             WorkflowStep_create(o, MaxStepRetries)]
    /\ executions = [e \in {} |-> NoExec]
    /\ step_executions = <<>>
    /\ workflow_status \in {NULL, "draft", "active", "deprecated", "archived"}
    /\ InitQueue(<<>>)
    /\ InitProcesses
    /\ InitEnqueue
    /\ InitRest

BirthNext ==
    \/ CreateNext
    \/ \E d \in Deprecators : DeprecateLoad(d)
    \/ \E d \in Deprecators : DeprecateUpdate(d)
    \/ \E h \in Archivers : ArchiveLoad(h)
    \/ \E h \in Archivers : ArchiveUpdate(h)

BirthSpec == BirthInit /\ [][BirthNext]_vars

\* WorkflowStateMachine.transition(from_state, to_state) from the last status
\* of the path: validate_transition, then the new state is returned.
Transition(to_state) ==
    /\ Len(sm_path) < MaxPathLen
    /\ LET from_state == sm_path[Len(sm_path)]
           outcome == validate_transition(from_state, to_state)
       IN /\ sm_outcome' = outcome
          /\ sm_to' = to_state
          /\ sm_path' = IF outcome = "None" THEN Append(sm_path, to_state) ELSE sm_path
    /\ UNCHANGED <<base_vars, cancel_vars, wresult, build_vars, order_vars, bfs>>

\* A caller walking the state machine from any status.
StateMachineInit ==
    /\ InitStoreFixed
    /\ workflow_status = "active"
    /\ InitQueue(<<>>)
    /\ InitProcesses
    /\ InitEnqueue
    /\ InitStateMachine(ExecutionStatus)
    /\ InitHandling({})
    /\ InitBuild({0, 1})

StateMachineNext == \E to_state \in ExecutionStatus : Transition(to_state)

StateMachineSpec == StateMachineInit /\ [][StateMachineNext]_vars

\* get_transition_path(from_state, to_state) up to its `while queue` loop:
\* equal states return [from_state]; otherwise the deque holds the start.
PathCall(from_state, to_state) ==
    /\ bfs.pc = "idle"
    /\ bfs' = IF from_state = to_state
              THEN [NoQuery EXCEPT !.pc = "done", !.from_state = from_state,
                                   !.to_state = to_state, !.returned = "list",
                                   !.result = <<from_state>>]
              ELSE [NoQuery EXCEPT !.pc = "loop", !.from_state = from_state,
                                   !.to_state = to_state,
                                   !.queue = <<[current |-> from_state,
                                                path |-> <<from_state>>]>>,
                                   !.visited = {from_state}]
    /\ UNCHANGED <<base_vars, cancel_vars, wresult, build_vars, order_vars,
                   sm_path, sm_to, sm_outcome>>

\* One turn of `while queue`: popleft, then the loop over the successors of
\* `current` in the order the set yields them.
PathVisit ==
    /\ bfs.pc = "loop"
    /\ bfs.queue # <<>>
    /\ LET head == Head(bfs.queue)
       IN \E order \in IterationOrders(TRANSITIONS[head.current]) :
             LET r == VisitNeighbours(order, head.path, bfs.to_state,
                                      Tail(bfs.queue), bfs.visited)
             IN bfs' = IF r.found
                       THEN [bfs EXCEPT !.pc = "done", !.returned = "list",
                                        !.result = r.result, !.queue = r.queue,
                                        !.visited = r.visited]
                       ELSE [bfs EXCEPT !.queue = r.queue, !.visited = r.visited]
    /\ UNCHANGED <<base_vars, cancel_vars, wresult, build_vars, order_vars,
                   sm_path, sm_to, sm_outcome>>

\* The deque ran empty: return None.
PathReturnNone ==
    /\ bfs.pc = "loop"
    /\ bfs.queue = <<>>
    /\ bfs' = [bfs EXCEPT !.pc = "done", !.returned = "None"]
    /\ UNCHANGED <<base_vars, cancel_vars, wresult, build_vars, order_vars,
                   sm_path, sm_to, sm_outcome>>

\* One get_transition_path call between any two statuses.
PathInit ==
    /\ InitStoreFixed
    /\ workflow_status = "active"
    /\ InitQueue(<<>>)
    /\ InitProcesses
    /\ InitEnqueue
    /\ InitRest

PathNext ==
    \/ \E from_state, to_state \in ExecutionStatus : PathCall(from_state, to_state)
    \/ PathVisit
    \/ PathReturnNone

PathSpec == PathInit /\ [][PathNext]_vars

\* ================================================================== claims

\* C1: every change of an execution's persisted status is a transition of the
\* table, whichever statement wrote it and under any interleaving.
C1_EveryStatusChangeIsLegal ==
    [][\A e \in DOMAIN executions :
          executions'[e].status # executions[e].status
              => can_transition(executions[e].status, executions'[e].status)]_vars

\* C2: once an execution's persisted status is completed or cancelled it
\* never changes again.
C2_TerminalStatusIsFinal ==
    [][\A e \in DOMAIN executions :
          executions[e].status \in {"completed", "cancelled"}
              => executions'[e].status = executions[e].status]_vars

\* C3: on an active workflow, whatever the interleaving of create_execution
\* calls with one (workflow_id, idempotency_key), at most one row exists for
\* the pair and every finished call either inserted it or failed with
\* DuplicateExecution carrying it.
C3_ExactlyOneInsert ==
    workflow_status = "active" =>
        \A k \in ExecutionKeys :
            LET rows == get_execution_by_idempotency_key(W1, k)
            IN /\ Cardinality(rows) <= 1
               /\ \A x \in CreateCallers :
                     xkey[x] = k /\ xresult[x] # NoResult =>
                         /\ xresult[x].kind \in {"created", "duplicate"}
                         /\ xresult[x].id \in rows

LegalPairs ==
    {<<"pending", "running">>, <<"pending", "cancelled">>,
     <<"running", "completed">>, <<"running", "failed">>, <<"running", "cancelled">>,
     <<"failed", "retrying">>, <<"failed", "cancelled">>,
     <<"retrying", "running">>, <<"retrying", "failed">>, <<"retrying", "cancelled">>}

C4_Resumability ==
    \A w \in Workers :
        winvoked[w] # <<>> =>
            /\ winvoked[w][1] = wexec[w].current_step_order
            /\ \A k \in 1..Len(winvoked[w]) : winvoked[w][k] >= wexec[w].current_step_order

\* C4 witness: after a worker kill, a re-dispatched execute call that read the
\* checkpoint of step 0 has invoked the handler of step 1 and nothing else.
C4_Witness ==
    \E w \in Workers :
        /\ crashes > 0
        /\ wexec[w].current_step_order = 1
        /\ wexec[w].status = "running"
        /\ winvoked[w] = <<1>>

\* C5: the persisted current_step_order of an execution never decreases.
C5_CurrentStepOrderMonotonic ==
    [][\A e \in DOMAIN executions :
          executions'[e].current_step_order >= executions[e].current_step_order]_vars

\* C6: retry_count <= max_retries for every execution in every reachable state.
C6_RetryCountWithinBudget ==
    \A e \in DOMAIN executions : executions[e].retry_count <= executions[e].max_retries

InLists(id) == id \in ListIds(queue) \cup ListIds(processing) \cup ListIds(dlq)

InSweepersHand(id) ==
    \E s \in Sweepers : spc[s] = "push" /\ from_json(Head(smessages[s])).id = id

C7_NoLoss ==
    \A id \in 1..msgs_created : InLists(id) \/ InSweepersHand(id) \/ id \in released

C7_LeavesProcessing ==
    \A id \in MessageIds :
        id \in ListIds(processing) /\ id \notin ListIds(processing') =>
            id \in released' \/ InSweepersHand(id)'

C8_VisibilityWindow ==
    \A w \in Workers :
        open[w] =>
            /\ to_json(wmsg[w]) \in Range(processing)
            /\ \A v \in Workers \ {w} : ~(open[v] /\ wmsg[v].id = wmsg[w].id)

InFlightCalls(k, l) ==
    {p \in Producers : ppc[p] # "idle" /\ pcall[p].key = k /\ pcall[p].life = l}

\* C9: the key lives 24 hours; in each life of the existence key of K exactly
\* one enqueue call with K adds a message (to Q or Q:delayed); a call returns
\* null only when it found the key live, and then adds nothing; a call that
\* finds the key gone adds a message.
C9_EnqueueIdempotency ==
    /\ IDEMPOTENCY_TTL = 24 * 60 * 60
    /\ \A k \in RealKeys : \A l \in 1..life[k] :
          adds[k][l] + Cardinality(InFlightCalls(k, l)) = 1
    /\ \A p \in Producers :
          /\ presult[p] = "null" => pexisted[p]
          /\ presult[p] = "message" => ~pexisted[p]
    /\ Len(queue) + Cardinality(delayed) = msgs_created

\* C9 witness: the key is in its second life, each life added one message and
\* a call in between returned null.
C9_Witness ==
    /\ life["k1"] = 2
    /\ adds["k1"][1] = 1
    /\ adds["k1"][2] = 1
    /\ \E p \in Producers : presult[p] = "null"

HasStepExecution(execution_id, step_order, attempt_number, status) ==
    \E i \in 1..Len(step_executions) :
        /\ step_executions[i].execution_id = execution_id
        /\ step_executions[i].step_order = step_order
        /\ step_executions[i].attempt_number = attempt_number
        /\ step_executions[i].status = status

\* C10: when _execute_step is over, each handler attempt k it made has a
\* StepExecution row of its own with attempt_number = k: failed for an attempt
\* that raised, completed for the one that returned.
C10_OneRecordPerAttempt ==
    \A w \in Workers :
        wpc[w] \in {"checkpoint", "step_failed"} =>
            \A k \in 1..wattempt[w] :
                HasStepExecution(wmsg[w].execution_id, Head(wsteps[w]), k,
                                 IF wpc[w] = "checkpoint" /\ k = wattempt[w]
                                 THEN "completed" ELSE "failed")

\* The step the _execute_step call of worker w is about.
CurrentStep(w) == workflow_steps[Head(wsteps[w])]

\* In one _execute_step call the handler is invoked at most step.max_retries
\* times; a step whose handler returned is not invoked again by the call.
C11_AttemptsBounded ==
    \A w \in Workers :
        /\ wpc[w] \in {"attempt", "handler", "checkpoint", "step_failed"} =>
               wattempt[w] <= CurrentStep(w).max_retries
        /\ wpc[w] = "checkpoint" => winvoked[w][Len(winvoked[w])] = Head(wsteps[w])
        /\ wpc[w] = "step" =>
               \A k \in 1..Len(winvoked[w]) : winvoked[w][k] < Head(wsteps[w])

\* What the claim says of a step that failed on all its attempts.
C11_Exhaustion(w) ==
    /\ wpc[w] = "step_failed" /\ wpc'[w] # "step_failed" =>
           /\ executions[E1].status = "running"
           /\ wpc'[w] = "fail_write"
    /\ wpc[w] = "fail_write" /\ wpc'[w] # "fail_write" =>
           /\ executions[E1].status = "running"
           /\ executions'[E1].status = "failed"
           /\ CurrentStep(w).name \in Range(executions'[E1].error_message)
           /\ executions'[E1].current_step_order = CurrentStep(w).step_order
           /\ \A k \in 1..Len(winvoked[w]) : winvoked[w][k] <= Head(wsteps[w])
           /\ wpc'[w] = "ack"

\* C11 as stated: at most max_retries handler invocations per _execute_step
\* call and none after the first success; a step that fails on all attempts
\* takes the execution from running to failed with an error_message that
\* contains the step's name, no later handler is invoked, current_step_order is
\* the failed step's step_order and execute returns (the worker acknowledges).
C11_StepRetryAndFailure ==
    /\ []C11_AttemptsBounded
    /\ [][\A w \in Workers : C11_Exhaustion(w)]_vars

\* What the code does with a step that failed on all its attempts.
C11_ExhaustionAsCoded(w) ==
    /\ wpc[w] = "step_failed" /\ wpc'[w] # "step_failed" =>
           IF executions[E1].status \in {"running", "retrying"}
           THEN wpc'[w] = "fail_write"
           ELSE wpc'[w] = "unexpected" /\ executions' = executions
    /\ wpc[w] = "fail_write" /\ wpc'[w] # "fail_write" =>
           /\ executions[E1].status = "running"
           /\ executions'[E1].status = "failed"
           /\ CurrentStep(w).name \in Range(executions'[E1].error_message)
           /\ executions'[E1].current_step_order = executions[E1].current_step_order
           /\ \/ executions'[E1].current_step_order = CurrentStep(w).step_order
              \/ /\ executions'[E1].current_step_order = 0
                 /\ \A o \in DOMAIN workflow_steps : CurrentStep(w).step_order <= o
           /\ \A k \in 1..Len(winvoked[w]) : winvoked[w][k] <= Head(wsteps[w])
           /\ wpc'[w] = "ack"
    /\ wpc[w] = "unexpected" /\ wpc'[w] # "unexpected" =>
           /\ wpc'[w] = "reject"
           /\ executions' = executions

\* C12: when a cancel_execution call that found the execution running writes
\* cancelled while a worker is inside execute for it, that worker's handling
\* of its message does not end in reject (so the message is neither requeued
\* nor put in Q:dlq): it ends in acknowledge.
C12_CancelledRunIsAcknowledged ==
    \A w \in Workers : wcancel[w] => wpc[w] # "reject"

\* C11 amended: as stated while the execution is running when the step gives
\* up, except that current_step_order is left as it was: the failed step's
\* step_order, or 0 when the workflow's first step, of a step_order above 0,
\* failed. On an execution dispatched again in status failed that has not
\* passed a checkpoint since, fail_execution is refused, the row is left as it
\* is and execute raises (the worker rejects).
C11_StepRetryAndFailureAsCoded ==
    /\ []C11_AttemptsBounded
    /\ [][\A w \in Workers : C11_ExhaustionAsCoded(w)]_vars

\* C11 witness: the first step of a workflow that starts at step_order 1 gave
\* up after MaxStepRetries attempts; the execution is failed, names the step,
\* still has current_step_order 0, and the worker is about to acknowledge.
C11_Witness ==
    /\ wpc["w1"] = "ack"
    /\ wattempt["w1"] = MaxStepRetries
    /\ Head(wsteps["w1"]) = 1
    /\ 0 \notin DOMAIN workflow_steps
    /\ executions[E1].status = "failed"
    /\ workflow_steps[1].name \in Range(executions[E1].error_message)
    /\ executions[E1].current_step_order = 0

\* The results orchestrator.execute returns, as opposed to the errors it raises.
ExecuteResults == {"completed", "failed", "already_completed"}

\* The step that ends worker w's handling of its message.
C13_EndOfHandling(w) ==
    wpc[w] # "idle" /\ wpc'[w] = "idle" =>
        LET message == wmsg[w]
        IN /\ wpc[w] \in {"ack", "reject"}
           /\ processing' = LRem(processing, to_json(message))
           /\ message.id \notin ttl_keys'
           /\ IF wpc[w] = "ack"
              THEN queue' = queue /\ dlq' = dlq
              ELSE IF message.attempt >= MAX_RETRIES
              THEN /\ queue' = queue
                   /\ Len(dlq') = Len(dlq) + 1
                   /\ from_json(dlq'[1]).id = message.id
              ELSE /\ dlq' = dlq
                   /\ Len(queue') = Len(queue) + 1
                   /\ from_json(queue'[1]).id = message.id
                   /\ from_json(queue'[1]).attempt = message.attempt + 1

\* C13: the handling of every dequeued message ends with exactly one of
\* acknowledge and reject: acknowledge when execute returned (completed,
\* failed, already_completed), reject when it raised; a rejected message goes
\* to Q:dlq when its attempt >= MAX_RETRIES, otherwise back to Q with
\* attempt + 1.
C13_AcknowledgeOrReject ==
    /\ [](\A w \in Workers :
            /\ wpc[w] = "ack" <=> wresult[w].status \in ExecuteResults /\ wmsg[w] # NoMsg
            /\ wpc[w] = "reject" <=> wresult[w].status \notin ExecuteResults \cup {"none"}
                                      /\ wmsg[w] # NoMsg)
    /\ [][\A w \in Workers : C13_EndOfHandling(w)]_vars

\* C13 witness: execute raised on a message on its last attempt and the
\* message is in Q:dlq, still on attempt MAX_RETRIES.
C13_Witness ==
    /\ wpc["w1"] = "idle"
    /\ wresult["w1"].status \in {"OrchestratorError", "ExecutionStateError"}
    /\ dlq # <<>>
    /\ from_json(dlq[1]).attempt = MAX_RETRIES
    /\ queue = <<>>
    /\ processing = <<>>

\* C14: in every reachable state of the store an active workflow has at least
\* one step and its step_orders are pairwise distinct and form the contiguous
\* set {min, ..., min + n - 1}, under any interleaving of add_step and
\* activate_workflow calls on the workflow.
C14_ActiveWorkflowSequential ==
    workflow_status = "active" =>
        /\ step_rows # <<>>
        /\ Cardinality(existing_orders(step_rows)) = Len(step_rows)
        /\ \A o \in existing_orders(step_rows), q \in existing_orders(step_rows) :
              \A between \in o..q : between \in existing_orders(step_rows)

\* One step of a retry_execution call of caller r.
C15_RetryStep(r) ==
    LET execution == executions[E1]
    IN /\ rpc[r] = "idle" /\ rpc'[r] = "increment" =>
              execution.status = "failed" /\ execution.retry_count < execution.max_retries
       /\ retry_calls' # retry_calls /\ rpc' = rpc => executions' = executions
       /\ rpc[r] = "increment" /\ rpc'[r] = "transition" =>
              executions'[E1].retry_count = execution.retry_count + 1
       /\ rpc[r] = "write" /\ rpc'[r] = "enqueue" =>
              /\ executions'[E1].status = "retrying"
              /\ executions'[E1].retry_count = execution.retry_count
       /\ rpc[r] = "transition" /\ rpc'[r] = "idle" =>
              /\ executions'[E1].status = execution.status
              /\ executions'[E1].retry_count = rexec[r].retry_count

\* C15: retry_execution goes ahead only on a failed execution with
\* retry_count < max_retries; a call that succeeds adds exactly 1 to
\* retry_count and leaves status retrying; a call that fails (wrong status, budget
\* used up, transition refused) leaves retry_count and status as they were.
C15_RetryLeavesNoTrace ==
    [][\A r \in RetryCallers : C15_RetryStep(r)]_vars

\* C16: a cancel_execution call goes ahead from every status the table lets
\* move to cancelled (pending, running, failed, retrying) and its write leaves
\* the status cancelled; it is refused, the status left as it is, only on an
\* execution that is completed or cancelled.
C16_CancelFollowsTable ==
    [][\A c \in CancelCallers :
          /\ cancel_calls' # cancel_calls /\ cpc[c] = "idle" =>
                 /\ can_transition(executions[E1].status, "cancelled") <=>
                        cpc'[c] = "transition"
                 /\ cpc'[c] = "idle" =>
                        /\ executions[E1].status \in {"completed", "cancelled"}
                        /\ executions' = executions
          /\ cpc[c] = "write" /\ cpc'[c] = "idle" =>
                 executions'[E1].status = "cancelled"]_vars

\* The steps an execute call that loaded the given checkpoint has to run.
C17_Remaining(w) == {o \in DOMAIN workflow_steps : o >= wexec[w].current_step_order}

\* C17: within one execution handlers are invoked in ascending step_order and
\* no step is skipped: an execute call invokes the handler of a step only
\* after the handlers of all its remaining smaller steps returned in that
\* call, and over the whole life of the execution the handler of step k + 1
\* is not invoked before an invocation of step k's handler has returned.
C17_AscendingStepOrder ==
    /\ [](\A w \in Workers :
            /\ \A i \in 1..Len(winvoked[w]), j \in 1..Len(winvoked[w]) :
                   i < j => winvoked[w][i] <= winvoked[w][j]
            /\ wdone[w] \subseteq succeeded)
    /\ [][\A w \in Workers :
             wpc[w] = "attempt" /\ wpc'[w] = "handler" =>
                 LET k == Head(wsteps[w])
                 IN /\ \A o \in C17_Remaining(w) : o < k => o \in wdone[w]
                    /\ \A o \in DOMAIN workflow_steps : o < k => o \in succeeded
                    /\ k - 1 \in DOMAIN workflow_steps => k - 1 \in succeeded]_vars

\* C17 witness: after a worker kill, a re-dispatched execute call that read
\* the checkpoint of step 0 is running the handler of step 1, which no call
\* has completed yet.
C17_Witness ==
    \E w \in Workers :
        /\ crashes > 0
        /\ wpc[w] = "handler"
        /\ Head(wsteps[w]) = 1
        /\ wdone[w] = {}
        /\ succeeded = {0}

\* C18: within one execution no two StepExecution rows have the same
\* (step_order, attempt_number), whatever the dispatches of the execution:
\* replay after a worker kill, execution-level retry, concurrent re-dispatch.
C18_StepExecutionsDistinct ==
    \A i \in 1..Len(step_executions), j \in 1..Len(step_executions) :
        /\ i # j
        /\ step_executions[i].execution_id = step_executions[j].execution_id
        /\ step_executions[i].step_order = step_executions[j].step_order
        => step_executions[i].attempt_number # step_executions[j].attempt_number

\* C19: execute on a completed execution returns already_completed with the
\* stored output, on a cancelled one it raises OrchestratorError; either way
\* no handler is invoked, no StepExecution row is created and status,
\* current_step_order and output_data are left as they were.
C19_TerminalDispatchIsInert ==
    [][\A w \in Workers :
          /\ wpc[w] = "execute"
          /\ wpc'[w] # "execute"
          /\ executions[wmsg[w].execution_id].status \in {"completed", "cancelled"}
          => LET execution == executions[wmsg[w].execution_id]
             IN /\ executions' = executions
                /\ step_executions' = step_executions
                /\ winvoked'[w] = <<>>
                /\ IF execution.status = "completed"
                   THEN /\ wresult'[w] = [status |-> "already_completed",
                                          output |-> execution.output_data]
                        /\ wpc'[w] = "ack"
                   ELSE /\ wresult'[w].status = "OrchestratorError"
                        /\ wpc'[w] = "reject"]_vars

\* C19 witness: a worker dispatched on a completed execution got
\* already_completed with the stored output and is about to acknowledge; the
\* store has no StepExecution row.
C19_Witness ==
    /\ wpc["w1"] = "ack"
    /\ wresult["w1"] = [status |-> "already_completed", output |-> "set"]
    /\ executions[E1].status = "completed"
    /\ executions[E1].output_data = "set"
    /\ step_executions = <<>>
    /\ winvoked["w1"] = <<>>

\* The statuses reached from a by exactly k transitions of the table.
RECURSIVE After(_, _)
After(a, k) == IF k = 0 THEN {a} ELSE UNION {TRANSITIONS[s] : s \in After(a, k - 1)}

LongestPath == Cardinality(ExecutionStatus) - 1

Reachable(a, b) == \E k \in 0..LongestPath : b \in After(a, k)

Distance(a, b) == CHOOSE k \in 0..LongestPath :
                      b \in After(a, k) /\ \A j \in 0..(k - 1) : b \notin After(a, j)

\* C21: get_transition_path(a, b) returns None exactly when b is not
\* reachable from a through the transition table; otherwise it returns a list
\* that starts at a, ends at b, moves by legal single transitions and is as
\* short as any such list (pending to completed has 3 states, a to a is [a]).
C21_ShortestTransitionPath ==
    bfs.pc = "done" =>
        LET a == bfs.from_state
            b == bfs.to_state
            path == bfs.result
        IN /\ bfs.returned = "None" <=> ~Reachable(a, b)
           /\ bfs.returned = "list" =>
                 /\ Len(path) >= 1
                 /\ path[1] = a
                 /\ path[Len(path)] = b
                 /\ \A i \in 1..(Len(path) - 1) : path[i + 1] \in TRANSITIONS[path[i]]
                 /\ Len(path) = Distance(a, b) + 1
           /\ (a = "pending" /\ b = "completed") => Len(path) = 3
           /\ a = b => path = <<a>>

\* C21 witness: the call from pending to retrying returned the only path, and
\* (second conjunct aside) a call from a terminal status returns None.
C21_Witness ==
    /\ bfs.pc = "done"
    /\ bfs.from_state = "pending"
    /\ bfs.to_state = "retrying"
    /\ bfs.returned = "list"
    /\ bfs.result = <<"pending", "running", "failed", "retrying">>

\* min(base * 2^k, max_delay) in whole seconds; 2^k is above every delay
\* bound of interest from k = 20 on.
C22_Delay(k) ==
    IF k >= 20 THEN RETRY_MAX_DELAY ELSE Min(RETRY_BASE_DELAY * 2^k, RETRY_MAX_DELAY)

\* The handler invocation of worker w ended in this step (w was not killed).
C22_AttemptEnds(w) ==
    /\ wpc[w] = "handler"
    /\ wpc'[w] \in {"attempt", "step_failed", "unexpected", "checkpoint"}

C22_SleepsAsClaimed(w, last(_)) ==
    LET k == wattempt[w]
        step == workflow_steps[Head(wsteps[w])]
    IN IF wpc'[w] # "checkpoint" /\ 1 <= k /\ k < last(step)
       THEN /\ wslept'[w].delays = Append(wslept[w].delays, C22_Delay(k))
            /\ wpc'[w] = "attempt"
       ELSE wslept'[w].delays = wslept[w].delays

C22_Bounded ==
    \A w \in Workers :
       LET delays == wslept[w].delays
       IN /\ \A i \in 1..Len(delays) : delays[i] <= RETRY_MAX_DELAY
          /\ \A i \in 1..(Len(delays) - 1) : delays[i] <= delays[i + 1]

C22_MaxRetries(step) == step.max_retries

\* C22: after the k-th failed attempt of a step, 1 <= k < max_retries, the
\* orchestrator sleeps exactly min(base * 2^k, max_delay) and goes on to
\* attempt k + 1; the delays never exceed max_delay and never decrease; it
\* does not sleep after the final failed attempt or after a success.
C22_Backoff ==
    /\ []C22_Bounded
    /\ [][\A w \in Workers :
             C22_AttemptEnds(w) => C22_SleepsAsClaimed(w, C22_MaxRetries)]_vars

C22_BelowOverflow(step) == Min(step.max_retries, FLOAT_MAX_EXP)

\* C22 as the code has it: the same for k below 1024; the failed attempt
\* 1024 of a step that has attempts left ends _execute_step with an
\* OverflowError and without a sleep.
C22_BackoffBelowOverflow ==
    /\ []C22_Bounded
    /\ [][\A w \in Workers :
             C22_AttemptEnds(w) => C22_SleepsAsClaimed(w, C22_BelowOverflow)]_vars

\* The case of C22: a third attempt is under way after sleeps of 2 and 4 seconds.
C22_Witness ==
    /\ wpc["w1"] = "handler"
    /\ wattempt["w1"] = 3
    /\ wslept["w1"].delays = <<2, 4>>

\* The positions of message id in the history of BRPOPLPUSH hits.
C23_Pops(id) == {i \in 1..Len(popped) : popped[i] = id}

\* Enqueued without delay and so far neither rejected nor recovered.
C23_Direct(id) == id \in Range(pushed) /\ id \notin requeued

\* C23: messages enqueued without delay that are never recovered or rejected
\* are dequeued in the order of their enqueue, and each of them is handed to
\* exactly one of the competing workers.
C23_Fifo ==
    /\ \A id \in Range(pushed) : C23_Direct(id) => Cardinality(C23_Pops(id)) <= 1
    /\ \A i, j \in 1..Len(pushed) :
          /\ i < j
          /\ C23_Direct(pushed[i])
          /\ C23_Direct(pushed[j])
          /\ C23_Pops(pushed[j]) # {}
          => \E a \in C23_Pops(pushed[i]) : \A b \in C23_Pops(pushed[j]) : a < b

\* The case of C23: three messages enqueued without delay were handed out in
\* enqueue order, the last two to different workers that still hold them.
C23_Witness ==
    /\ Len(pushed) = 3
    /\ requeued = {}
    /\ popped = <<pushed[1], pushed[2], pushed[3]>>
    /\ queue = <<>>
    /\ wpc["w1"] = "held" /\ wmsg["w1"].id = pushed[2]
    /\ wpc["w2"] = "held" /\ wmsg["w2"].id = pushed[3]

\* Sweeper s puts the head of its snapshot back on Q in this step.
C24_Requeues(s) ==
    /\ spc[s] = "push"
    /\ spc'[s] # "push"
    /\ from_json(Head(smessages[s])).attempt + 1 <= RECOVER_MAX_ATTEMPTS

\* The message the next BRPOPLPUSH on list takes.
C24_NextDequeued(list) == list[Len(list)]

\* C24: a message recover_stale_messages puts back on Q is placed ahead of
\* the messages waiting in Q: the next dequeue returns it, before any message
\* that was in Q at the time of the recovery.
C24_RecoveredFirst ==
    [][\A s \in Sweepers :
          C24_Requeues(s) =>
             LET message == from_json(Head(smessages[s]))
             IN /\ C24_NextDequeued(queue') = to_json([message EXCEPT !.attempt = @ + 1])
                /\ \A i \in 1..Len(queue) : queue'[i] = queue[i]]_vars

\* C24 as the code has it: the recovered message is placed behind the
\* messages waiting in Q, which keep their places and are dequeued before it.
C24_RecoveredLast ==
    [][\A s \in Sweepers :
          C24_Requeues(s) =>
             LET message == from_json(Head(smessages[s]))
             IN /\ queue'[1] = to_json([message EXCEPT !.attempt = @ + 1])
                /\ Len(queue') = Len(queue) + 1
                /\ \A i \in 1..Len(queue) : queue'[i + 1] = queue[i]
                /\ queue # <<>> => C24_NextDequeued(queue') = C24_NextDequeued(queue)]_vars

\* Sweeper s runs its LREM in this step.
C25_Removes(s) == spc[s] = "lrem" /\ spc'[s] = "push"

\* Sweeper s pushes the message it took out in this step.
C25_Pushes(s) == spc[s] = "push" /\ spc'[s] # "push"

\* recover_stale_messages of sweeper s returns in this step.
C25_Returns(s) == spc[s] # "idle" /\ spc'[s] = "idle"

\* The message with which sweeper s is busy.
C25_Message(s) == from_json(Head(smessages[s]))

\* The removed message goes to Q with attempt + 1 when its attempt is at most
\* `most`, and to Q:dlq with dlq_reason max_attempts_exceeded otherwise.
C25_Routes(s, most) ==
    LET message == C25_Message(s)
        bumped == [message EXCEPT !.attempt = @ + 1]
    IN IF message.attempt <= most
       THEN /\ queue' = LPush(queue, to_json(bumped))
            /\ dlq' = dlq
       ELSE /\ \E j \in Range(dlq') :
                  /\ from_json(j).id = message.id
                  /\ from_json(j).payload = "max_attempts_exceeded"
            /\ Len(dlq') = Len(dlq) + 1
            /\ queue' = queue

\* C25: recover_stale_messages removes from Q:processing exactly the entries
\* whose visibility key is missing and leaves the others; it returns the
\* number of entries it removed; a removed message on attempt a <= 3 goes to
\* Q with attempt a + 1, any other to Q:dlq with dlq_reason
\* max_attempts_exceeded.
C25_RecoverStale ==
    [][\A s \in Sweepers :
          /\ C25_Removes(s) =>
                /\ ~key_exists(ttl_keys, C25_Message(s).id)
                /\ Len(processing') = Len(processing) - 1
                /\ processing' = LRem(processing, Head(smessages[s]))
          /\ C25_Returns(s) => srecovered'[s] = sremoved'[s]
          /\ C25_Pushes(s) => C25_Routes(s, RECOVER_MAX_ATTEMPTS)]_vars

\* C25 without its first two parts and with the threshold the code has: a
\* removed message on attempt a goes to Q when a + 1 <= 3.
C25_RoutesAsCoded ==
    [][\A s \in Sweepers :
          C25_Pushes(s) => C25_Routes(s, RECOVER_MAX_ATTEMPTS - 1)]_vars

\* The three parts of C25, one by one.
C25_RemovesMissingKeys ==
    [][\A s \in Sweepers :
          C25_Removes(s) =>
             /\ ~key_exists(ttl_keys, C25_Message(s).id)
             /\ Len(processing') = Len(processing) - 1]_vars

C25_ReturnsRemoved ==
    [][\A s \in Sweepers : C25_Returns(s) => srecovered'[s] = sremoved'[s]]_vars

C25_RoutesAsClaimed ==
    [][\A s \in Sweepers : C25_Pushes(s) => C25_Routes(s, RECOVER_MAX_ATTEMPTS)]_vars

\* C26: in every reachable state of the store an execution whose status is
\* completed, failed or cancelled has completed_at set.
C26_TerminalHasCompletedAt ==
    \A e \in DOMAIN executions :
        executions[e].status \in {"completed", "failed", "cancelled"}
            => executions[e].completed_at # <<>>

\* C26 witness: a cancel_execution call wrote cancelled over the execution a
\* worker had started, and the row has its completed_at.
C26_Witness ==
    /\ executions[E1].status = "cancelled"
    /\ executions[E1].started_at # <<>>
    /\ executions[E1].completed_at # <<>>
    /\ cancel_calls > 0

\* C27: an execution whose status is running has started_at set, and
\* started_at, once set, never changes: not on the transition to running that
\* follows a retry, not on the checkpoint writes.
C27_StartedAtSetOnce ==
    /\ [](\A e \in DOMAIN executions :
             executions[e].status = "running" => executions[e].started_at # <<>>)
    /\ [][\A e \in DOMAIN executions :
             executions[e].started_at # <<>>
                => executions'[e].started_at = executions[e].started_at]_vars

\* C27 witness: the execution failed, was retried and is running again at a
\* later time, with the started_at of its first start.
C27_Witness ==
    /\ executions[E1].status = "running"
    /\ executions[E1].retry_count = 1
    /\ executions[E1].started_at = <<0>>
    /\ executions[E1].completed_at # <<>>
    /\ now > 0

\* One step of create_workflow calls, as C28 has it.
C28_Step ==
    /\ \A k \in NameCallers :
          (kpc[k] = "idle" /\ kpc'[k] = "insert") =>
             /\ strip(kname'[k]) # <<>>
             /\ \A i \in 1..Len(workflows) : workflows[i].name # strip(kname'[k])
    /\ (name_calls' # name_calls /\ kpc' = kpc) =>
          /\ workflows' = workflows
          /\ \E k \in NameCallers : kresult'[k] = "WorkflowValidationError"
    /\ \A k \in NameCallers :
          (kpc[k] = "insert" /\ kpc'[k] = "idle" /\ workflows' = workflows) =>
             kresult'[k] = "WorkflowValidationError"

\* C28: no two stored workflows have the same name; a create_workflow call
\* whose trimmed name equals a stored name, or is empty, fails with a
\* validation error and inserts nothing.
C28_UniqueNames ==
    /\ [](\A i, j \in 1..Len(workflows) :
             i # j => workflows[i].name # workflows[j].name)
    /\ [][C28_Step]_vars

\* The part of C28 about names that are empty after trimming, by its own.
C28_EmptyNameRejected ==
    [][\A k \in NameCallers :
          kpc[k] = "idle" /\ kpc'[k] = "insert" => strip(kname'[k]) # <<>>]_vars

\* C29: every stored step has step_order >= 0, timeout_seconds > 0 and
\* max_retries >= 1, so that the orchestrator's retry loop invokes its handler
\* at least once; add_step goes on to its INSERT only with such values.
C29_ValidStep(step) ==
    /\ step.step_order >= 0
    /\ step.timeout_seconds > 0
    /\ step.max_retries >= 1

C29_StoredStepsValid ==
    /\ [](\A i \in 1..Len(step_rows) :
             C29_ValidStep(step_rows[i]) /\ may_attempt(0, step_rows[i]))
    /\ [][\A a \in Adders :
            apc[a] = "steps" /\ apc'[a] = "insert" => C29_ValidStep(alocal[a])]_vars

\* What the code keeps: every stored step has step_order >= 0, and the
\* timeout_seconds and max_retries its add_step call was given.
C29_StoredAsGiven ==
    /\ [](\A i \in 1..Len(step_rows) : step_rows[i].step_order >= 0)
    /\ [][\A a \in Adders :
            Len(step_rows') > Len(step_rows) /\ apc[a] = "insert" =>
                /\ step_rows'[Len(step_rows')].timeout_seconds = alocal[a].timeout_seconds
                /\ step_rows'[Len(step_rows')].max_retries = alocal[a].max_retries]_vars

\* C29 witness: a step given max_retries 0 and timeout_seconds 0 is stored.
C29_Witness ==
    /\ Len(step_rows) = 2
    /\ step_rows[2].max_retries = 0
    /\ step_rows[2].timeout_seconds = 0
    /\ apc["a1"] = "idle"

\* The call whose write a step is.
C30_Activates == \E v \in Activators : vpc[v] = "update" /\ vpc'[v] = "idle"
C30_Deprecates == \E d \in Deprecators : dpc[d] = "update" /\ dpc'[d] = "idle"
C30_Archives == \E h \in Archivers : hpc[h] = "update" /\ hpc'[h] = "idle"
C30_Inserts == \E a \in Adders : apc[a] = "insert" /\ Len(step_rows') > Len(step_rows)

\* The write of a step is made by a call that loaded a status permitting it.
C30_Loaded ==
    /\ \A v \in Activators :
          vpc[v] = "update" /\ vpc'[v] = "idle" => vlocal[v].status = "draft"
    /\ \A d \in Deprecators :
          dpc[d] = "update" /\ dpc'[d] = "idle" => may_deprecate(dlocal[d])
    /\ \A a \in Adders :
          apc[a] = "insert" /\ apc'[a] = "idle" => alocal[a].status = "draft"

\* A write goes with the status `from`, the one the claim reads it from.
C30_Step(from) ==
    /\ (workflow_status' # workflow_status) =>
           \/ C30_Activates /\ from = "draft" /\ workflow_status' = "active"
           \/ C30_Deprecates /\ from \in {"draft", "active"} /\ workflow_status' = "deprecated"
           \/ C30_Archives /\ workflow_status' = "archived"
    /\ C30_Activates => from = "draft"
    /\ C30_Deprecates => from \in {"draft", "active"}
    /\ C30_Inserts => from = "draft"

\* C30: the status changes only draft -> active by activate_workflow, draft or
\* active -> deprecated by deprecate_workflow and any -> archived by
\* archive_workflow; a workflow that left active is never active again, one
\* that left draft is never draft again; activate and deprecate write only
\* from a status that permits them, a refused call changes nothing, and
\* add_step stores a step only while the workflow is draft.
C30_Lifecycle ==
    [][/\ C30_Step(workflow_status)
       /\ (workflow_status' = "active" => workflow_status \in {"draft", "active"})
       /\ (workflow_status' = "draft" => workflow_status = "draft")
       /\ (\A d \in Deprecators :
               dresult'[d] = "validation_error" /\ dpc[d] = "idle" /\ dlocal'[d] # dlocal[d] =>
                   UNCHANGED workflow_status)]_vars

\* What the code keeps: each call checks the status it loaded, and writes
\* whatever the status has become since; no call writes draft.
C30_LifecycleAsLoaded ==
    [][/\ C30_Loaded
       /\ (workflow_status' # workflow_status =>
               \/ C30_Activates /\ workflow_status' = "active"
               \/ C30_Deprecates /\ workflow_status' = "deprecated"
               \/ C30_Archives /\ workflow_status' = "archived")
       /\ (workflow_status' = "draft" => workflow_status = "draft")
       /\ (\A d \in Deprecators :
               dpc[d] = "idle" /\ <<dpc[d], dlocal[d], dresult[d]>>' # <<dpc[d], dlocal[d], dresult[d]>> =>
                   /\ UNCHANGED workflow_status
                   /\ (dpc'[d] = "update") = may_deprecate(workflow_status))]_vars

\* C30 witness: activated, deprecated and archived in turn, after a refused
\* deprecate call would have been possible; the deprecate call of d1 succeeded.
C30_Witness ==
    /\ workflow_status = "archived"
    /\ dresult["d1"] = "deprecated"
    /\ Len(step_rows) = 1
    /\ vpc["v1"] = "idle" /\ vlocal["v1"].status = "draft" /\ vlocal["v1"].steps # <<>>
    /\ hpc["h1"] = "idle"

\* The rows a step inserts into executions.
C31_Born == DOMAIN executions' \ DOMAIN executions

\* A new execution is pending with current_step_order 0 and retry_count 0.
C31_BornPending ==
    \A e \in C31_Born :
        /\ executions'[e].status = "pending"
        /\ executions'[e].current_step_order = 0
        /\ executions'[e].retry_count = 0

\* A create_execution call that loaded a missing or non-active workflow ends
\* there with an error: it inserts no execution and writes no log.
C31_Refused ==
    \A x \in CreateCallers :
        xpc[x] = "idle" /\ xstatus'[x] # "active" /\ xresult'[x] # xresult[x] =>
            /\ xresult'[x].kind = "service_error"
            /\ xpc'[x] = "idle"
            /\ UNCHANGED <<executions, xlogs>>

C32_Messages(e) == {i \in 1..Len(queue) : from_json(queue[i]).execution_id = e}

\* A 201 goes with an execution this POST inserted and one message for it; a
\* 200 goes with the execution the pair already had.
C32_Answered ==
    \A x \in CreateCallers :
        /\ xanswer[x] = 201 =>
               /\ xresult[x].kind = "created"
               /\ xresult[x].id \in get_execution_by_idempotency_key(W1, xkey[x])
               /\ Cardinality(C32_Messages(xresult[x].id)) = 1
        /\ xanswer[x] = 200 =>
               /\ xresult[x].kind = "duplicate"
               /\ xresult[x].id \in get_execution_by_idempotency_key(W1, xkey[x])

\* The pair has at most one execution and one message; it has one of each
\* once a POST was answered and no POST is under way.
C32_OneOfEach ==
    /\ Cardinality(DOMAIN executions) <= 1
    /\ Len(queue) <= 1
    /\ (/\ \A x \in CreateCallers : xpc[x] = "idle" /\ (xresult[x] = NoResult) = (xanswer[x] = NoAnswer)
        /\ \E x \in CreateCallers : xanswer[x] # NoAnswer)
           => Cardinality(DOMAIN executions) = 1 /\ Len(queue) = 1

\* C32: a POST for a new pair answers 201 and enqueues exactly one message
\* with the new execution's id, a POST for a pair that has an execution
\* answers 200 with that execution and enqueues nothing; any number of POSTs
\* of the pair gives one execution and one message.
C32_TriggerIdempotent ==
    /\ [](C32_Answered /\ C32_OneOfEach)
    /\ [](\A x \in CreateCallers : xanswer[x] \in {NoAnswer, 201, 200})
    /\ [][\A x \in CreateCallers :
            xanswer[x] = NoAnswer /\ xanswer'[x] = 200 => UNCHANGED <<queue, executions>>]_vars

\* What the code keeps: the same, except that a POST whose INSERT the store
\* refused is answered 400.
C32_TriggerAsCoded ==
    /\ [](C32_Answered /\ C32_OneOfEach)
    /\ [](\A x \in CreateCallers :
             /\ xanswer[x] \in {NoAnswer, 201, 200, 400}
             /\ xanswer[x] = 400 => xresult[x].kind = "integrity_error")
    /\ [][\A x \in CreateCallers :
            xanswer[x] = NoAnswer /\ xanswer'[x] \in {200, 400} =>
                UNCHANGED <<queue, executions>>]_vars

\* The ids of the members of Q:delayed.
C33_DelayedIds == {from_json(m[1]).id : m \in delayed}

\* enqueue with a delay d > 0 at time t puts the message into Q:delayed with
\* score t + d and leaves Q as it is.
C33_Placed ==
    \A p \in Producers :
        ppc[p] = "create" /\ ppc'[p] = "idle" /\ pcall[p].delay > 0 =>
            /\ queue' = queue
            /\ \E m \in delayed' \ delayed :
                   /\ from_json(m[1]).id = msgs_created'
                   /\ m[2] = now + pcall[p].delay

\* A dequeue returns a delayed message only at or after its score.
C33_NotEarly ==
    \A w \in Workers :
        wpc[w] = "pop" /\ wpc'[w] = "popped" /\ wmsg'[w].id \in DOMAIN due =>
            now >= due[wmsg'[w].id]

\* A dequeue call made at or after a member's score moves it into Q.
C33_Promoted ==
    \A w \in Workers :
        /\ wpc[w] = "idle" /\ wpc'[w] # "idle" =>
               /\ \A m \in delayed : m[2] <= now => m[1] \in Range(wready'[w])
               /\ wpc'[w] = IF \E m \in delayed : m[2] <= now THEN "pipe" ELSE "pop"
        /\ wpc[w] = "pipe" /\ wpc'[w] = "pop" =>
               \A j \in Range(wready[w]) :
                   /\ j \in Range(queue')
                   /\ j \notin {m[1] : m \in delayed'}

\* C33: a message enqueued with delay d > 0 at time t is placed in Q:delayed
\* and not in Q, is returned by no dequeue before t + d, and is moved into Q
\* by the first dequeue call made at or after t + d.
C33_DelayedDelivery ==
    /\ [](\A id \in C33_DelayedIds : id \in DOMAIN due /\ id \notin ListIds(queue))
    /\ [](\A id \in ListIds(queue) \cap DOMAIN due : now >= due[id])
    /\ [][C33_Placed /\ C33_NotEarly /\ C33_Promoted]_vars

\* C33 witness: a message enqueued at time 0 with a delay of one clock step
\* was promoted and dequeued by w1 at exactly that time, while w2 got nothing
\* earlier and a later delayed message still waits in Q:delayed.
C33_Witness ==
    /\ wpc["w1"] = "held"
    /\ wmsg["w1"].id \in DOMAIN due
    /\ due[wmsg["w1"].id] = TickSeconds
    /\ now = TickSeconds
    /\ delayed # {}
    /\ \A m \in delayed : m[2] > now

\* An unexpected error reached execute's `except Exception` while worker w's
\* execution is running: fail_execution goes on to its UPDATE, which writes
\* failed with the error message; execute raises OrchestratorError and the
\* worker turns to reject.
C34_Fails(w) ==
    LET id == wmsg[w].execution_id
    IN /\ wpc[w] = "unexpected" /\ wpc'[w] \notin {"unexpected", "idle"}
              /\ executions[id].status = "running" =>
          wpc'[w] = "unexpected_write"
       /\ wpc[w] = "unexpected_write" /\ wpc'[w] \notin {"unexpected_write", "idle"} =>
          /\ executions'[id].status = "failed"
          /\ Len(executions'[id].error_message) = 2
          /\ Head(executions'[id].error_message) = "Unexpected error: "
          /\ wresult'[w] = Raises("OrchestratorError")
          /\ wpc'[w] = "reject"

\* The handling of a message whose execute call raised ends with the message
\* back in Q on the next attempt or in Q:dlq, and out of Q:processing.
C34_Rejects(w) ==
    wpc[w] # "idle" /\ wpc'[w] = "idle" /\ crashes' = crashes
        /\ wresult[w].status \notin ExecuteResults \cup {"none"} =>
            /\ wpc[w] = "reject"
            /\ to_json(wmsg[w]) \notin Range(processing')
            /\ IF wmsg[w].attempt >= MAX_RETRIES
               THEN queue' = queue /\ dlq' # dlq /\ from_json(Head(dlq')).id = wmsg[w].id
               ELSE /\ dlq' = dlq
                    /\ Head(queue') = to_json([wmsg[w] EXCEPT !.attempt = @ + 1])

\* C34: an unexpected error inside orchestrator.execute on a running
\* execution leaves the execution failed with the error message recorded,
\* execute raises, and the worker rejects the message, never acknowledging it.
C34_UnexpectedError ==
    /\ [](\A w \in Workers :
            wpc[w] \in {"unexpected", "unexpected_write"} => wresult[w].status \notin ExecuteResults)
    /\ [](\A w \in Workers :
            wpc[w] = "ack" => wresult[w].status \in ExecuteResults)
    /\ [][\A w \in Workers : C34_Fails(w) /\ C34_Rejects(w)]_vars

\* C34 witness: the backoff computation overflowed on a running execution;
\* the execution is failed with the message of that error, execute raised
\* and the message is back in Q on attempt 2.
C34_Witness ==
    /\ wpc["w1"] = "idle"
    /\ wresult["w1"] = Raises("OrchestratorError")
    /\ executions[E1].status = "failed"
    /\ executions[E1].error_message = <<"Unexpected error: ", "int too large to convert to float">>
    /\ Len(queue) = 1
    /\ from_json(queue[1]).attempt = 2
    /\ processing = <<>>

\* ---------------------------------------------------------------------
\* C35: the output of a completed execution

\* The output the claim describes: one entry per step of the workflow, and
\* final_data = input_data merged in step order with every step's output.
C35_AllSteps ==
    [steps |-> {workflow_steps[o].name : o \in DOMAIN workflow_steps},
     final_data |-> <<"input_data">> \o
                    [i \in 1..Cardinality(DOMAIN workflow_steps) |->
                        workflow_steps[SortedOrders(DOMAIN workflow_steps)[i]].name]]

C35_Done(e) ==
    /\ executions[e].status = "completed"
    /\ executions[e].output_data # NULL
    /\ e \in DOMAIN outputs

\* C35: a completed execution's output_data has an entry for every step of
\* the workflow and final_data is input_data merged in step order with the
\* output of every step, also after a resume from a checkpoint.
C35_OutputComplete ==
    \A e \in DOMAIN executions : C35_Done(e) => outputs[e] = C35_AllSteps

\* What the code gives: the output covers the steps from some checkpoint on.
C35_OutputFromCheckpoint ==
    \A e \in DOMAIN executions :
        C35_Done(e) =>
            \E c \in DOMAIN workflow_steps \cup {Cardinality(DOMAIN workflow_steps)} :
                outputs[e] = final_output({o \in DOMAIN workflow_steps : o >= c})

\* An execution completed by a call that resumed after the first step.
C35_Witness ==
    \E e \in DOMAIN executions :
        /\ C35_Done(e)
        /\ outputs[e] # C35_AllSteps

\* ---------------------------------------------------------------------
\* C36: execute on a failed execution

\* A step of the worker, the only process of the specification, taken
\* while the stored status of the execution is failed.
C36_Frame ==
    \A e \in DOMAIN executions :
        executions[e].status = "failed" =>
            /\ executions'[e].status = "failed"
            /\ executions'[e].current_step_order = executions[e].current_step_order
            /\ executions'[e].retry_count = executions[e].retry_count
            /\ \A w \in Workers : Len(winvoked'[w]) <= Len(winvoked[w])

\* C36: without retry_execution a failed execution does not run again:
\* execute on an execution stored as failed (a requeued or duplicate
\* message) invokes no step handler and leaves status, current_step_order
\* and retry_count unchanged.
C36_FailedStaysFailed == [][C36_Frame]_vars

\* What execute does instead: the stored status is failed when the call
\* loads the execution, and the call invokes a handler.
C36_Reruns ==
    \E w \in Workers :
        /\ wpc[w] \in {"step", "attempt", "handler"}
        /\ executions[wmsg[w].execution_id].status = "failed"

\* ---------------------------------------------------------------------
\* C37: no execution is stranded

\* The executions that have a message in Q or Q:processing.
C37_Queued == {from_json(j).execution_id : j \in Range(queue) \cup Range(processing)}

\* Every enqueued execution that is pending, running or retrying has a message.
C37_Held ==
    \A e \in DOMAIN executions :
        ~is_terminal(executions[e].status) => e \in C37_Queued

\* A step that acknowledges a message.
C37_Acknowledges(w) ==
    /\ wpc[w] = "ack"
    /\ wpc'[w] = "idle"
    /\ crashes' = crashes

\* The worker acknowledges, or routes to Q:dlq, only messages of executions
\* in a terminal status.
C37_WorkerRoutes ==
    \A w \in Workers :
        C37_Acknowledges(w) \/ (wpc[w] = "reject" /\ dlq' # dlq) =>
            is_terminal(executions[wmsg[w].execution_id].status)

\* Any step that adds a message to Q:dlq adds one of such an execution.
C37_DlqRoutes ==
    \A j \in Range(dlq') \ Range(dlq) :
        is_terminal(executions[from_json(j).execution_id].status)

\* C37: a message is acknowledged or routed to Q:dlq, by reject or by
\* recover_stale, only when its execution is completed, failed or
\* cancelled; every pending, running or retrying execution has a message
\* in Q or Q:processing.
C37_NoneStranded == []C37_Held /\ [][C37_WorkerRoutes /\ C37_DlqRoutes]_vars

\* The part that holds: what the worker itself acknowledges or dead-letters.
C37_WorkerRoutesTerminal == [][C37_WorkerRoutes]_vars

\* ---------------------------------------------------------------------
\* C38: no message is duplicated

\* How many entries of a list carry the message id.
C38_InList(list, id) == Cardinality({i \in 1..Len(list) : from_json(list[i]).id = id})

\* How many entries of Q, Q:processing, Q:delayed and Q:dlq carry it.
C38_Copies(id) ==
    C38_InList(queue, id) + C38_InList(processing, id) + C38_InList(dlq, id)
    + Cardinality({d \in delayed : from_json(d[1]).id = id})

C38_Ids == ListIds(queue) \cup ListIds(processing) \cup ListIds(dlq)
           \cup {from_json(d[1]).id : d \in delayed}

\* C38: each message id occurs at most once in total across Q,
\* Q:processing, Q:delayed and Q:dlq, under every interleaving of dequeue,
\* acknowledge, reject and recover_stale sweeps.
C38_NoDuplicate == \A id \in C38_Ids : C38_Copies(id) <= 1

\* ---------------------------------------------------------------------
\* C39: bounded redelivery

\* The attempts of the entries of Q and Q:processing that carry the id.
C39_Attempts(q, p, id) ==
    {from_json(j).attempt : j \in {x \in Range(q) \cup Range(p) : from_json(x).id = id}}

\* Every message in Q or Q:processing has attempt <= MAX_RETRIES.
C39_AttemptBounded ==
    \A j \in Range(queue) \cup Range(processing) : from_json(j).attempt <= MAX_RETRIES

\* No step brings a message back at an attempt below one it is waiting or
\* being processed at.
C39_Grows ==
    \A id \in MessageIds :
        \A a \in C39_Attempts(queue, processing, id) :
            \A b \in C39_Attempts(queue', processing', id) : a <= b

\* No step takes an entry out of Q:dlq.
C39_DlqKeeps == Len(dlq') >= Len(dlq) /\ Range(dlq) \subseteq Range(dlq')

\* C39: every message in Q or Q:processing has attempt <= 3, the attempt
\* of a message never decreases, and nothing leaves Q:dlq.
C39_BoundedRedelivery == []C39_AttemptBounded /\ [][C39_Grows /\ C39_DlqKeeps]_vars

\* The parts that hold: the bound on attempt, and Q:dlq as a sink.
C39_BoundedAttempt == []C39_AttemptBounded /\ [][C39_DlqKeeps]_vars

\* The bound on BRPOPLPUSH hits is never what stops a redelivery.
C39_WithinPops == deliveries < MaxRedeliveries

\* Every message is eventually gone from Q and Q:processing for good:
\* acknowledged, or in Q:dlq.
C39_Settles == <>[](queue = <<>> /\ processing = <<>>)

\* ---------------------------------------------------------------------
\* C40: graceful shutdown

\* The main loop has ended: start has returned.
C40_LoopEnded(w) == wpc[w] = "stopped"

\* At the end of the main loop every message the worker dequeued has been
\* through its acknowledge or reject, and none is left in Q:processing.
C40_NothingAbandoned ==
    \A w \in Workers :
        C40_LoopEnded(w) =>
            /\ wmsg[w] = NoMsg
            /\ Range(popped) \subseteq released
            /\ processing = <<>>

\* The main loop calls _process_one only after a test that saw _running
\* true, and does nothing once it has ended.
C40_MainLoop ==
    \A w \in Workers :
        /\ wpc[w] # "called" /\ wpc'[w] = "called" => running[w]
        /\ C40_LoopEnded(w) => C40_LoopEnded(w)' /\ deliveries' = deliveries

\* The recovery loop starts a sweep only with the event clear, and does
\* nothing once it has ended.
C40_RecoveryLoop ==
    \A s \in Sweepers :
        /\ spc[s] = "idle" /\ spc'[s] = "woke" => ~shutdown_event[WorkerOf(s)]
        /\ spc[s] = "exited" => spc'[s] = "exited"

\* C40: after stop() the main loop eventually ends and starts no dequeue
\* once it has seen the flag false; the message being processed when stop
\* was called is acknowledged or rejected before the loop ends; the
\* recovery loop ends.
C40_GracefulShutdown ==
    /\ []C40_NothingAbandoned
    /\ [][C40_MainLoop /\ C40_RecoveryLoop]_vars
    /\ (stops > 0 ~> C40_LoopEnded("w1"))
    /\ (stops > 0 ~> \A s \in Sweepers : spc[s] = "exited")

\* stop() was called while the worker was processing a message.
C40_Witness ==
    /\ stops > 0
    /\ ~running["w1"]
    /\ wpc["w1"] = "held"
    /\ to_json(wmsg["w1"]) \in Range(processing)

====
